---- MODULE Spec2Model ----
(***************************************************************************)
(* The NDBC ingestion pipeline of projeto-oceanografia-copernicus:         *)
(* the text parsers and normalisation helpers of the edge function         *)
(* supabase/functions/ingest-ndbc/index.ts, its request handler, and the   *)
(* tables, unique index, trigger and maintenance function of               *)
(* supabase/migrations/001_create_ocean_schema.sql.                        *)
(*                                                                         *)
(* A text is a sequence of characters (one-character strings).  A number   *)
(* is an exact decimal [k |-> "num", m |-> mantissa, e |-> fraction        *)
(* digits] with no trailing fraction zero, so that equality of records is  *)
(* equality of values; null and NaN are values of their own.               *)
(***************************************************************************)
EXTENDS Integers, Sequences, FiniteSets, TLC

-----------------------------------------------------------------------------
(* Values *)

Null == [k |-> "null", m |-> 0, e |-> 0]
NaN == [k |-> "nan", m |-> 0, e |-> 0]

RECURSIVE Num(_, _)
Num(m, e) ==
    IF e > 0 /\ m % 10 = 0
    THEN Num(m \div 10, e - 1)
    ELSE [k |-> "num", m |-> m, e |-> e]

IsNum(v) == v.k = "num"

Neg(v) == IF IsNum(v) THEN Num(0 - v.m, v.e) ELSE v

RECURSIVE Pow10(_)
Pow10(n) == IF n = 0 THEN 1 ELSE 10 * Pow10(n - 1)

\* a <= b for two numbers
NumLeq(a, b) == a.m * Pow10(b.e) <= b.m * Pow10(a.e)

-----------------------------------------------------------------------------
(* Characters and string primitives of the JavaScript runtime *)

Digits == {"0", "1", "2", "3", "4", "5", "6", "7", "8", "9"}

DigitVal(c) ==
    CASE c = "0" -> 0 [] c = "1" -> 1 [] c = "2" -> 2 [] c = "3" -> 3
      [] c = "4" -> 4 [] c = "5" -> 5 [] c = "6" -> 6 [] c = "7" -> 7
      [] c = "8" -> 8 [] c = "9" -> 9

\* the characters String.prototype.trim strips and \s matches
WhiteSpace == {" ", "\t", "\n", "\r", "\f"}

Drop(s, n) == SubSeq(s, n + 1, Len(s))
Take(s, n) == SubSeq(s, 1, IF n < Len(s) THEN n ELSE Len(s))

StartsWith(s, p) == Len(s) >= Len(p) /\ SubSeq(s, 1, Len(p)) = p

\* length of the longest prefix of s made of characters of S
RECURSIVE RunLen(_, _)
RunLen(s, S) ==
    IF s = <<>> \/ Head(s) \notin S THEN 0 ELSE 1 + RunLen(Tail(s), S)

RECURSIVE DigitsToInt(_)
DigitsToInt(s) ==
    IF s = <<>> THEN 0
    ELSE 10 * DigitsToInt(SubSeq(s, 1, Len(s) - 1)) + DigitVal(s[Len(s)])

RECURSIVE TrimRight(_)
TrimRight(s) ==
    IF s = <<>> \/ s[Len(s)] \notin WhiteSpace THEN s
    ELSE TrimRight(SubSeq(s, 1, Len(s) - 1))

Trim(s) == TrimRight(Drop(s, RunLen(s, WhiteSpace)))

\* String.prototype.split(sep) for a one-character separator
RECURSIVE Split(_, _)
Split(s, sep) ==
    LET n == RunLen(s, {c \in {s[i] : i \in 1..Len(s)} : c # sep})
    IN  IF n = Len(s) THEN <<s>>
        ELSE <<Take(s, n)>> \o Split(Drop(s, n + 1), sep)

\* String.prototype.split(/\s+/): the separators are maximal whitespace runs
RECURSIVE SplitWs(_)
SplitWs(s) ==
    LET n == RunLen(s, {c \in {s[i] : i \in 1..Len(s)} : c \notin WhiteSpace})
        rest == Drop(s, n)
        w == RunLen(rest, WhiteSpace)
    IN  IF n = Len(s) THEN <<s>>
        ELSE <<Take(s, n)>> \o SplitWs(Drop(rest, w))

\* Array.prototype.filter(Boolean) on strings: the empty string is falsy
RECURSIVE FilterNonEmpty(_)
FilterNonEmpty(q) ==
    IF q = <<>> THEN <<>>
    ELSE (IF Head(q) = <<>> THEN <<>> ELSE <<Head(q)>>) \o FilterNonEmpty(Tail(q))

\* parseFloat: skip leading white space, then the longest prefix that is a
\* decimal literal (sign, digits, fraction, exponent); NaN when there is none.
\* The literal "Infinity" is outside the alphabets used here.
parseFloat(str) ==
    LET Value(negative, mant, nf, ex) ==
            LET mag == IF ex >= nf THEN Num(mant * Pow10(ex - nf), 0)
                       ELSE Num(mant, nf - ex)
            IN  IF negative THEN Neg(mag) ELSE mag
        \* s4 is what follows the letter e; without digits there the
        \* literal ends before the e
        Exponent(s4) ==
            LET eSigned == s4 # <<>> /\ Head(s4) \in {"+", "-"}
                s5 == IF eSigned THEN Tail(s4) ELSE s4
                nx == RunLen(s5, Digits)
            IN  IF nx = 0 THEN 0
                ELSE IF eSigned /\ Head(s4) = "-" THEN 0 - DigitsToInt(Take(s5, nx))
                ELSE DigitsToInt(Take(s5, nx))
        Fraction(negative, int, frac, s3) ==
            IF int = <<>> /\ frac = <<>> THEN NaN
            ELSE Value(negative, DigitsToInt(int \o frac), Len(frac),
                       IF s3 # <<>> /\ Head(s3) \in {"e", "E"}
                       THEN Exponent(Tail(s3)) ELSE 0)
        \* int is the run of integer digits and s2 what follows it
        Mantissa(negative, int, s2) ==
            IF s2 # <<>> /\ Head(s2) = "."
            THEN Fraction(negative, int, Take(Tail(s2), RunLen(Tail(s2), Digits)),
                          Drop(Tail(s2), RunLen(Tail(s2), Digits)))
            ELSE Fraction(negative, int, <<>>, s2)
        Unsigned(negative, s1) ==
            Mantissa(negative, Take(s1, RunLen(s1, Digits)), Drop(s1, RunLen(s1, Digits)))
        Signed(s0) ==
            IF s0 # <<>> /\ Head(s0) \in {"+", "-"}
            THEN Unsigned(Head(s0) = "-", Tail(s0))
            ELSE Unsigned(FALSE, s0)
    IN  Signed(Drop(str, RunLen(str, WhiteSpace)))

\* parseInt(str) with no radix, on decimal input: skip leading white space,
\* sign, then the longest run of digits; NaN when there is none.  (The
\* hexadecimal prefix 0x is outside the alphabets used here.)
parseInt(str) ==
    LET s0 == Drop(str, RunLen(str, WhiteSpace))
        signed == s0 # <<>> /\ Head(s0) \in {"+", "-"}
        s1 == IF signed THEN Tail(s0) ELSE s0
        ni == RunLen(s1, Digits)
        v == DigitsToInt(Take(s1, ni))
    IN  IF ni = 0 THEN NaN
        ELSE IF signed /\ Head(s0) = "-" THEN Num(0 - v, 0) ELSE Num(v, 0)

-----------------------------------------------------------------------------
(* Helpers of index.ts *)

\* safeFloat with the result tested for truth (if (!f ...)), so that a
\* reading of 0 is taken for a missing one
safeFloat_zeroIsMissing(val) ==
    IF val = <<>> \/ Trim(val) = <<"M", "M">> \/ Trim(val) = <<>> THEN Null
    ELSE LET Checked(f) ==
                 IF f = NaN \/ f = Num(0, 0) \/ f = Num(99, 0) \/ f = Num(999, 0)
                    \/ f = Num(9999, 0)
                 THEN Null
                 ELSE f
         IN  Checked(parseFloat(Trim(val)))

safeFloat(val) ==
    IF val = <<>> \/ Trim(val) = <<"M", "M">> \/ Trim(val) = <<>> THEN Null
    ELSE LET Checked(f) ==
                 IF f = NaN \/ f = Num(99, 0) \/ f = Num(999, 0) \/ f = Num(9999, 0)
                 THEN Null
                 ELSE f
         IN  Checked(parseFloat(Trim(val)))

CoordNumChars == Digits \cup {"."}

ToUpper(c) ==
    CASE c = "n" -> "N" [] c = "s" -> "S" [] c = "e" -> "E" [] c = "w" -> "W"
      [] OTHER -> c

\* coord.match(/([\d.]+)\s*([NSEW])/i) tried at position i.  The group
\* [\d.]+ is greedy; giving characters back cannot help, because the next
\* character would then be a digit or a dot, which neither \s* nor [NSEW]
\* accepts, so only the maximal run is tried.
CoordMatchAt(s, i) ==
    LET t == Drop(s, i - 1)
        n == RunLen(t, CoordNumChars)
        u == Drop(t, n)
        w == RunLen(u, WhiteSpace)
        v == Drop(u, w)
    IN  IF n > 0 /\ v # <<>> /\ ToUpper(Head(v)) \in {"N", "S", "E", "W"}
        THEN [ok |-> TRUE, num |-> Take(t, n), dir |-> ToUpper(Head(v))]
        ELSE [ok |-> FALSE, num |-> <<>>, dir |-> ""]

\* the leftmost match of the (unanchored) pattern
RECURSIVE CoordMatchFrom(_, _)
CoordMatchFrom(s, i) ==
    IF i > Len(s) THEN [ok |-> FALSE, num |-> <<>>, dir |-> ""]
    ELSE IF CoordMatchAt(s, i).ok THEN CoordMatchAt(s, i)
    ELSE CoordMatchFrom(s, i + 1)

parseCoord(coord) ==
    LET Signed(dir, value) ==
            IF dir = "S" \/ dir = "W" THEN Neg(value) ELSE value
        Matched(match) ==
            IF ~match.ok THEN Null
            ELSE Signed(match.dir, parseFloat(match.num))
    IN  Matched(CoordMatchFrom(coord, 1))

\* the lookup table without the entry for 44
REGION_MAP_without44 ==
    << <<<<"4", "1">>, "atlantic">>, <<<<"4", "2">>, "gulf">>,
       <<<<"4", "5">>, "great_lakes">>,
       <<<<"4", "6">>, "pacific">>, <<<<"5", "1">>, "pacific">>,
       <<<<"5", "2">>, "pacific">> >>

REGION_MAP ==
    << <<<<"4", "1">>, "atlantic">>, <<<<"4", "2">>, "gulf">>,
       <<<<"4", "4">>, "atlantic">>, <<<<"4", "5">>, "great_lakes">>,
       <<<<"4", "6">>, "pacific">>, <<<<"5", "1">>, "pacific">>,
       <<<<"5", "2">>, "pacific">> >>

RECURSIVE classifyFrom(_, _)
classifyFrom(stationId, i) ==
    IF i > Len(REGION_MAP) THEN "other"
    ELSE IF StartsWith(stationId, REGION_MAP[i][1]) THEN REGION_MAP[i][2]
    ELSE classifyFrom(stationId, i + 1)

classifyRegion(stationId) == classifyFrom(stationId, 1)

\* /^\d{5}$/.test(stationId)
IsStationId(s) == Len(s) = 5 /\ \A i \in 1..5 : s[i] \in Digits

-----------------------------------------------------------------------------
(* Date.UTC and Date.prototype.toISOString *)

\* days from 1970-01-01 to the first day of month mn (0..11) of year y, proleptic Gregorian
DayFromYearMonth(y, mn) ==
    LET yy == IF mn < 2 THEN y - 1 ELSE y
        era == yy \div 400
        yoe == yy - era * 400
        mp == IF mn < 2 THEN mn + 10 ELSE mn - 2
        doy == (153 * mp + 2) \div 5
        doe == yoe * 365 + yoe \div 4 - yoe \div 100 + doy
    IN  era * 146097 + doe - 719468

\* An instant is [day |-> days since 1970-01-01, min |-> minute of that day].
Instant(day, minutes) == [day |-> day + minutes \div 1440, min |-> minutes % 1440]

Before(a, b) == a.day < b.day \/ (a.day = b.day /\ a.min < b.min)

\* Date.UTC(year, month, day, hour, minute) (the seconds and milliseconds are
\* 0): NaN if an argument is NaN or the instant is outside the range of Date
\* (100,000,000 days either side of the epoch); a year in 0..99 means
\* 1900 + year; month, day, hour and minute outside their usual ranges carry
\* over.
DateUTC(year, month, day, hour, minute) ==
    IF \E a \in {year, month, day, hour, minute} : ~IsNum(a) THEN NaN
    ELSE LET yr == IF 0 <= year.m /\ year.m <= 99 THEN 1900 + year.m ELSE year.m
             ym == yr + month.m \div 12
             mn == month.m % 12
             dayNo == DayFromYearMonth(ym, mn) + day.m - 1
             tv == Instant(dayNo, hour.m * 60 + minute.m)
         IN  IF Before([day |-> 100000000, min |-> 0], tv)
                \/ Before(tv, [day |-> 0 - 100000000, min |-> 0])
             THEN NaN
             ELSE tv

-----------------------------------------------------------------------------
(* Parsers of index.ts *)

\* the record with the two coordinates taken for each other
StationRow_swapped(id, name, lat, lon) ==
    [id |-> id, name |-> name, latitude |-> lon, longitude |-> lat,
     region |-> classifyRegion(id), station_type |-> "buoy", is_active |-> TRUE]

StationRow(id, name, lat, lon) ==
    [id |-> id, name |-> name, latitude |-> lat, longitude |-> lon,
     region |-> classifyRegion(id), station_type |-> "buoy", is_active |-> TRUE]

\* the body of the loop of parseStations for one line: the records it pushes
parseStationLine(line) ==
    LET trimmed == Trim(line)
        parts == FilterNonEmpty([i \in 1..Len(Split(trimmed, "|")) |->
                                    Trim(Split(trimmed, "|")[i])])
    IN  IF trimmed = <<>> \/ StartsWith(trimmed, <<"#">>)
           \/ StartsWith(trimmed, <<"|", "-", "-">>)
        THEN <<>>
        ELSE IF Len(parts) < 4 THEN <<>>
        ELSE IF ~IsStationId(parts[1]) THEN <<>>
        ELSE LET lat == parseCoord(parts[3])
                 lon == parseCoord(parts[4])
             IN  IF lat = Null \/ lon = Null THEN <<>>
                 ELSE <<StationRow(parts[1], Take(parts[2], 200), lat, lon)>>

RECURSIVE parseStationLines(_)
parseStationLines(lines) ==
    IF lines = <<>> THEN <<>>
    ELSE parseStationLine(Head(lines)) \o parseStationLines(Tail(lines))

parseStations(text) == parseStationLines(Split(text, "\n"))

\* the body of the loop of parseLatestObs for one line.  toISOString throws
\* a RangeError on an invalid date, which the try/catch turns into a skip; a
\* valid instant is kept as the instant that its ISO string and the
\* TIMESTAMPTZ column both denote.
parseObsLine(line) ==
    LET trimmed == Trim(line)
        parts == SplitWs(trimmed)
    IN  IF trimmed = <<>> \/ StartsWith(trimmed, <<"#">>) THEN <<>>
        ELSE IF Len(parts) < 19 THEN <<>>
        ELSE IF ~IsStationId(parts[1]) THEN <<>>
        ELSE LET year == parseInt(parts[4])
                 month == IF IsNum(parseInt(parts[5]))
                          THEN Num(parseInt(parts[5]).m - 1, 0) ELSE NaN
                 day == parseInt(parts[6])
                 hour == parseInt(parts[7])
                 minute == parseInt(parts[8])
                 observedAt == DateUTC(year, month, day, hour, minute)
             IN  IF observedAt = NaN THEN <<>>
                 ELSE << [station_id |-> parts[1],
                          observed_at |-> observedAt,
                          wind_direction |-> safeFloat(parts[9]),
                          wind_speed |-> safeFloat(parts[10]),
                          wind_gust |-> safeFloat(parts[11]),
                          wave_height |-> safeFloat(parts[12]),
                          dominant_period |-> safeFloat(parts[13]),
                          wave_direction |-> safeFloat(parts[15]),
                          pressure |-> safeFloat(parts[16]),
                          air_temp |-> safeFloat(parts[17]),
                          water_temp |-> safeFloat(parts[18]),
                          dewpoint |-> safeFloat(parts[19]),
                          visibility |-> IF Len(parts) > 19 THEN safeFloat(parts[20])
                                         ELSE Null] >>

RECURSIVE parseObsLines(_)
parseObsLines(lines) ==
    IF lines = <<>> THEN <<>>
    ELSE parseObsLine(Head(lines)) \o parseObsLines(Tail(lines))

parseLatestObs(text) == parseObsLines(Split(text, "\n"))

-----------------------------------------------------------------------------
(* The upstream feeds: the bodies an HTTP GET of the two NDBC URLs returns *)

RECURSIVE Join(_, _)
Join(parts, sep) ==
    IF parts = <<>> THEN <<>>
    ELSE IF Len(parts) = 1 THEN parts[1]
    ELSE parts[1] \o sep \o Join(Tail(parts), sep)

Id41001 == <<"4", "1", "0", "0", "1">>
Id42001 == <<"4", "2", "0", "0", "1">>
Id46042 == <<"4", "6", "0", "4", "2">>
Id51001 == <<"5", "1", "0", "0", "1">>
Id99999 == <<"9", "9", "9", "9", "9">>
MM == <<"M", "M">>

StationLine(id, name, lat, lon) == Join(<<id, name, lat, lon>>, <<"|">>) \o <<"|">>

\* one line of latest_obs.txt: STN LAT LON YYYY MM DD hh mm WDIR WSPD GST
\* WVHT DPD APD MWD PRES PTDY ATMP WTMP DEWP VIS
ObsLine(id, year, month, day, hour, minute, wspd, wvht, wtmp) ==
    Join(<<id, <<"3", "4", ".", "7">>, <<"-", "7", "2", ".", "7">>,
           year, month, day, hour, minute,
           <<"9", "9", "9">>, wspd, MM, wvht, MM, MM, MM,
           <<"1", "0", "1", "3", ".", "2">>, MM, wtmp, MM, MM, MM>>, <<" ">>)

StationHeader == <<"#", " ", "S", "T", "N", "|", "N", "A", "M", "E">>
StationRule == <<"|", "-", "-", "-", "|">>
Lat347N == <<"3", "4", ".", "7", " ", "N">>
Lon727W == <<"7", "2", ".", "7", " ", "W">>

StationFeed1 ==
    Join(<<StationHeader,
           StationLine(Id41001, <<"A">>, Lat347N, Lon727W),
           StationLine(Id42001, <<"B">>, <<"2", "5", ".", "9", " ", "N">>,
                       <<"8", "9", ".", "7", " ", "W">>),
           StationLine(Id46042, <<"C">>, <<"3", "6", ".", "8", " ", "S">>,
                       <<"1", "2", "2", ".", "4", " ", "E">>)>>, <<"\n">>)

\* a renamed station, a line with a bad identifier, a line with coordinates
\* outside the globe, and a line whose latitude token is ". N"
StationFeed2 ==
    Join(<<StationLine(Id41001, <<"A", "2">>, Lat347N, Lon727W),
           StationLine(<<"X", "Y", "Z">>, <<"b", "a", "d">>, Lat347N, Lon727W),
           StationLine(Id51001, <<"D">>, <<"9", "5", ".", "0", " ", "N">>,
                       <<"2", "0", "0", ".", "0", " ", "W">>),
           StationLine(Id46042, <<"C">>, <<".", " ", "N">>, Lon727W)>>, <<"\n">>)

\* the body of an upstream error response
ErrorPage == <<"<", "h", "1", ">", "5", "0", "3", "<", "/", "h", "1", ">">>

StationFeeds == <<StationFeed1, StationFeed2, ErrorPage>>

Y2024 == <<"2", "0", "2", "4">>
Y2023 == <<"2", "0", "2", "3">>

\* a reading that is 0, missing readings, a sentinel reading, and a line of a
\* station that no station feed lists
ObsFeed1 ==
    Join(<<<<"#", "S", "T", "N">>,
           ObsLine(Id41001, Y2024, <<"0", "1">>, <<"1", "5">>, <<"1", "2">>, <<"0", "0">>,
                   <<"5", ".", "0">>, <<"1", ".", "2">>, <<"2", "0", ".", "1">>),
           ObsLine(Id42001, Y2024, <<"0", "1">>, <<"1", "5">>, <<"1", "2">>, <<"0", "0">>,
                   MM, <<"9", "9", ".", "0">>, <<"0">>),
           ObsLine(Id99999, Y2024, <<"0", "1">>, <<"1", "5">>, <<"1", "2">>, <<"0", "0">>,
                   <<"1", ".", "0">>, MM, MM)>>, <<"\n">>)

\* a changed reading for a key of ObsFeed1, a line without a date, and an
\* old reading of the same station
ObsFeed2 ==
    Join(<<ObsLine(Id41001, Y2024, <<"0", "1">>, <<"1", "5">>, <<"1", "2">>, <<"0", "0">>,
                   <<"7", ".", "5">>, <<"1", ".", "2">>, <<"2", "0", ".", "1">>),
           ObsLine(Id42001, MM, MM, MM, MM, MM, MM, MM, MM),
           ObsLine(Id41001, Y2023, <<"1", "2">>, <<"0", "1">>, <<"0", "0">>, <<"0", "0">>,
                   <<"3", ".", "1">>, MM, <<"1", "5", ".", "5">>)>>, <<"\n">>)

ObsFeeds == <<ObsFeed1, ObsFeed2, ErrorPage>>

-----------------------------------------------------------------------------
(* Bounds of the model *)

\* the number of invocations of the edge function
MaxRuns == 2
\* the number of store requests that fail for a reason outside the data
MaxFaults == 1
\* the number of hours the clock advances
MaxTicks == 1
\* the number of retention sweeps
MaxSweeps == 1
\* STATION_BATCH (200 in index.ts) and MEAS_BATCH (500 in index.ts), scaled
\* to the size of the feeds above so that a run has more than one batch
STATION_BATCH == 2
MEAS_BATCH == 2

Runs == 1..MaxRuns

\* the values of p_days the sweeps are called with (30 is the default)
SweepDays == {0, 30}

\* 2024-01-15T13:00Z
StartTime == [day |-> 19737, min |-> 780]

-----------------------------------------------------------------------------
(* State *)

VARIABLES
    stations,           \* table stations: a set of rows
    measurements,       \* table measurements: a set of rows
    ingestion_log,      \* table ingestion_log: a sequence of rows, row i has id i
    nextMeasurementId,  \* the identity sequence of measurements.id
    now,                \* the clock of the database and of the function
    pc,                 \* per run: where the handler stands
    logId,              \* per run: logData?.id, 0 when undefined
    stationRows,        \* per run: the array stations
    stationsCount,      \* per run
    measurementRows,    \* per run: the array measurements
    measurementsCount,  \* per run
    i,                  \* per run: the index of the batch loop in progress
    response,           \* per run: the HTTP status returned, 0 before the return
    audit,              \* per run: history of what the run met and did (measNew:
                        \* the keys of the measurement rows it inserted)
    solo,               \* per run: nothing else has acted since the run started
    pred,               \* per run: the run that completed right before it started
    last,               \* the store as the most recent run left it
    deleted_count,      \* what the last cleanup_old_measurements returned
    faults, ticks, sweeps,  \* how much of the bounds is used
    fn, arg, res,       \* the function applied, its input, its result
    probes,             \* getAvailableSSTSource: the probes made, in order
    sstSource,          \* getAvailableSSTSource: the source returned
    stationId,          \* useNDBCTimeseries: the station selected
    data,               \* useNDBCTimeseries: the series held
    stationList,        \* useNDBCStations: the state stations
    loading, error,     \* the state loading and error of the hook studied
    pending,            \* the requests of the hook that are in flight
    issued,             \* how many requests the hook has issued
    settled             \* the request that settled last, and how

vars == <<stations, measurements, ingestion_log, nextMeasurementId, now, pc,
          logId, stationRows, stationsCount, measurementRows, measurementsCount,
          i, response, audit, solo, pred, last, deleted_count, faults, ticks,
          sweeps, fn, arg, res, probes, sstSource, stationId, data, stationList,
          loading, error, pending, issued, settled>>

storeVars == <<stations, measurements, ingestion_log, nextMeasurementId, now,
               deleted_count>>
runVars == <<pc, logId, stationRows, stationsCount, measurementRows,
             measurementsCount, i, response>>
histVars == <<audit, solo, pred, last, faults, ticks, sweeps>>
pureVars == <<fn, arg, res>>
clientVars == <<probes, sstSource, stationId, data, stationList, loading, error,
               pending, issued, settled>>

NoAudit ==
    [stationFeed |-> 0, obsFeed |-> 0, fetchFailed |-> {}, threw |-> {},
     stationAttempts |-> 0, stationFailures |-> {}, stationsWritten |-> 0,
     measAttempts |-> 0, measFailures |-> {}, measWritten |-> 0, measNew |-> {},
     fault |-> FALSE, logUpdates |-> 0, completion |-> FALSE]

NoSnapshot ==
    [valid |-> FALSE, stationFeed |-> 0, obsFeed |-> 0, fault |-> FALSE,
     stations |-> {}, measurements |-> {}]

NoLast == [valid |-> FALSE, stationFeed |-> 0, obsFeed |-> 0, fault |-> FALSE]

InitStore ==
    /\ stations = {}
    /\ measurements = {}
    /\ ingestion_log = <<>>
    /\ nextMeasurementId = 1
    /\ now = StartTime
    /\ deleted_count = 0

InitRuns ==
    /\ pc = [r \in Runs |-> "idle"]
    /\ logId = [r \in Runs |-> 0]
    /\ stationRows = [r \in Runs |-> <<>>]
    /\ stationsCount = [r \in Runs |-> 0]
    /\ measurementRows = [r \in Runs |-> <<>>]
    /\ measurementsCount = [r \in Runs |-> 0]
    /\ i = [r \in Runs |-> 0]
    /\ response = [r \in Runs |-> 0]

InitHist ==
    /\ audit = [r \in Runs |-> NoAudit]
    /\ solo = [r \in Runs |-> FALSE]
    /\ pred = [r \in Runs |-> NoSnapshot]
    /\ last = NoLast
    /\ faults = 0
    /\ ticks = 0
    /\ sweeps = 0

InitPure ==
    /\ fn = "none"
    /\ arg = <<>>
    /\ res = <<>>

\* no station selected: null, which fetchData takes like the empty string
NoSelection == <<>>

\* the state error when it is null, written as a text beside the messages
NoError == "null"

\* no request settled yet
NoRequest == [n |-> 0, outcome |-> "none", payload |-> <<>>]

\* the browser side before anything is mounted
InitClient ==
    /\ probes = <<>>
    /\ sstSource = "none"
    /\ stationId = NoSelection
    /\ data = <<>>
    /\ stationList = <<>>
    /\ loading = FALSE
    /\ error = NoError
    /\ pending = {}
    /\ issued = 0
    /\ settled = NoRequest

Init == InitStore /\ InitRuns /\ InitHist /\ InitPure /\ InitClient

-----------------------------------------------------------------------------
(* The store: what PostgreSQL does with the statements the function sends *)

\* stations without the column the trigger stations_updated_at maintains
WithoutUpdatedAt(tbl) ==
    {[id |-> s.id, name |-> s.name, latitude |-> s.latitude,
      longitude |-> s.longitude, region |-> s.region,
      station_type |-> s.station_type, is_active |-> s.is_active,
      created_at |-> s.created_at] : s \in tbl}

Range(q) == {q[k] : k \in 1..Len(q)}

\* the conflict target of the measurement upsert, the unique index
\* idx_measurements_station_time
MeasKey(m) == <<m.station_id, m.observed_at>>

\* no unique index on (station_id, observed_at): nothing ever conflicts
MeasConflict_noIndex(m, b) == FALSE

\* whether an existing row conflicts with a proposed row, per table
StationConflict(s, b) == s.id = b.id

MeasConflict(m, b) == MeasKey(m) = MeasKey(b)

\* INSERT ... ON CONFLICT DO UPDATE refuses a statement that proposes the
\* same conflict key twice (SQLSTATE 21000)
StationProposesTwice(batch) ==
    \E a, b \in 1..Len(batch) : a # b /\ StationConflict(batch[a], batch[b])

MeasProposesTwice(batch) ==
    \E a, b \in 1..Len(batch) : a # b /\ MeasConflict(batch[a], batch[b])

\* latitude and longitude are NOT NULL, and JSON.stringify sends NaN as null
StationRowAccepted(b) == IsNum(b.latitude) /\ IsNum(b.longitude)

\* a conflicting station replaced as a whole (delete and insert) instead of
\* updated: created_at takes its default again
StationTableRow_replaced(b, created, t) ==
    [id |-> b.id, name |-> b.name, latitude |-> b.latitude,
     longitude |-> b.longitude, region |-> b.region,
     station_type |-> b.station_type, is_active |-> b.is_active,
     created_at |-> t, updated_at |-> t]

\* a proposed station as a table row
StationTableRow(b, created, t) ==
    [id |-> b.id, name |-> b.name, latitude |-> b.latitude,
     longitude |-> b.longitude, region |-> b.region,
     station_type |-> b.station_type, is_active |-> b.is_active,
     created_at |-> created, updated_at |-> t]

\* the upsert taken for a replacement of the table by the batch
UpsertStations_replaceAll(tbl, batch, t) ==
    [ok |-> TRUE, tbl |-> {StationTableRow(b, t, t) : b \in Range(batch)}]

\* sb.from("stations").upsert(batch, { onConflict: "id" }) as one statement:
\* all of it or none of it.  A conflicting row takes the proposed columns and,
\* by the trigger, updated_at; a new row takes the defaults now().
UpsertStations(tbl, batch, t) ==
    IF StationProposesTwice(batch)
       \/ \E b \in Range(batch) : ~StationRowAccepted(b)
    THEN [ok |-> FALSE, tbl |-> tbl]
    ELSE LET untouched == {s \in tbl : \A b \in Range(batch) : ~StationConflict(s, b)}
             updated == {StationTableRow(p[2], p[1].created_at, t) :
                            p \in {p \in tbl \X Range(batch) :
                                     StationConflict(p[1], p[2])}}
             inserted == {StationTableRow(b, t, t) :
                            b \in {b \in Range(batch) :
                                     \A s \in tbl : ~StationConflict(s, b)}}
         IN  [ok |-> TRUE, tbl |-> untouched \cup updated \cup inserted]

\* a proposed measurement as a table row
MeasRow(b, id, t) ==
    [id |-> id, station_id |-> b.station_id, observed_at |-> b.observed_at,
     wind_direction |-> b.wind_direction, wind_speed |-> b.wind_speed,
     wind_gust |-> b.wind_gust, wave_height |-> b.wave_height,
     dominant_period |-> b.dominant_period, wave_direction |-> b.wave_direction,
     pressure |-> b.pressure, air_temp |-> b.air_temp, water_temp |-> b.water_temp,
     dewpoint |-> b.dewpoint, visibility |-> b.visibility, ingested_at |-> t]

\* the rows of the batch, in order, one after the other: a conflicting row
\* overwrites the columns the request names and keeps id and ingested_at; a
\* new row takes the next identity value
RECURSIVE ApplyMeasRows(_, _, _, _)
ApplyMeasRows(tbl, batch, t, nextId) ==
    IF batch = <<>> THEN [tbl |-> tbl, nextId |-> nextId]
    ELSE LET b == Head(batch)
             hit == {m \in tbl : MeasConflict(m, b)}
         IN  IF hit = {}
             THEN ApplyMeasRows(tbl \cup {MeasRow(b, nextId, t)}, Tail(batch), t,
                                nextId + 1)
             ELSE ApplyMeasRows((tbl \ hit) \cup
                                  {MeasRow(b, m.id, m.ingested_at) : m \in hit},
                                Tail(batch), t, nextId)

\* measurements.station_id without REFERENCES stations(id)
UpsertMeasurements_noForeignKey(tbl, stationTbl, batch, t, nextId) ==
    IF MeasProposesTwice(batch)
    THEN [ok |-> FALSE, tbl |-> tbl, nextId |-> nextId]
    ELSE [ok |-> TRUE] @@ ApplyMeasRows(tbl, batch, t, nextId)

\* sb.from("measurements").upsert(batch, { onConflict:
\* "station_id,observed_at" }) as one statement; station_id REFERENCES
\* stations(id)
UpsertMeasurements(tbl, stationTbl, batch, t, nextId) ==
    IF MeasProposesTwice(batch)
       \/ \E b \in Range(batch) : \A s \in stationTbl : s.id # b.station_id
    THEN [ok |-> FALSE, tbl |-> tbl, nextId |-> nextId]
    ELSE [ok |-> TRUE] @@ ApplyMeasRows(tbl, batch, t, nextId)

\* the comparison taken for observed_at <= now() - p_days days
SweptRows_inclusive(tbl, t, p_days) ==
    {m \in tbl : ~Before([day |-> t.day - p_days, min |-> t.min], m.observed_at)}

\* DELETE FROM measurements WHERE observed_at < now() - p_days days
SweptRows(tbl, t, p_days) ==
    {m \in tbl : Before(m.observed_at, [day |-> t.day - p_days, min |-> t.min])}

-----------------------------------------------------------------------------
(* The request handler of index.ts, one action per await *)

\* slice(i) for slice(i, i + size): a batch runs to the end of the array
Min_toTheEnd(a, b) == b

Min(a, b) == IF a < b THEN a ELSE b

\* what the two parsers make of each body
StationFeedRows == [k \in 1..Len(StationFeeds) |-> parseStations(StationFeeds[k])]
ObsFeedRows == [k \in 1..Len(ObsFeeds) |-> parseLatestObs(ObsFeeds[k])]

\* the requests sent with .throwOnError(): a refused or failed request rejects
UpsertThrows_onError(result) == ~result.ok

\* supabase-js resolves a request that the store refuses or that cannot reach
\* the store with { data: null, error }: without .throwOnError() the awaited
\* builder never rejects
UpsertThrows(result) == FALSE

\* a store request either reaches the store or fails for a reason outside
\* the data (connection, overload); at most MaxFaults requests fail that way
Reaches == {reaches \in BOOLEAN : reaches \/ faults < MaxFaults}

\* the other runs that have started are no longer alone
Disturb(r) == [q \in Runs |-> IF q = r THEN solo[r] ELSE FALSE]

\* the run that has just returned 200, valid if it ran alone
Completed(r) ==
    [valid |-> solo[r],
     stationFeed |-> audit[r].stationFeed, obsFeed |-> audit[r].obsFeed,
     fault |-> audit[r].fault]

\* the catch branch: the response is built, nothing is written to the store
Catch(r) ==
    /\ response' = [response EXCEPT ![r] = 500]
    /\ pc' = [pc EXCEPT ![r] = "done"]
    /\ last' = NoLast

\* sb.from("ingestion_log").insert({ status: "running", source: "ndbc-edge" })
Start(r) ==
    /\ pc[r] = "idle"
    /\ \E reaches \in Reaches :
        /\ IF reaches
           THEN /\ ingestion_log' = Append(ingestion_log,
                    [id |-> Len(ingestion_log) + 1, started_at |-> now,
                     finished_at |-> Null, status |-> "running",
                     stations_count |-> 0, measurements_count |-> 0,
                     error_message |-> Null, source |-> "ndbc-edge"])
                /\ logId' = [logId EXCEPT ![r] = Len(ingestion_log) + 1]
           ELSE /\ UNCHANGED <<ingestion_log, logId>>
        /\ faults' = IF reaches THEN faults ELSE faults + 1
    /\ pc' = [pc EXCEPT ![r] = "fetchStations"]
    /\ solo' = [q \in Runs |-> q = r]
    /\ pred' = [pred EXCEPT ![r] =
                  IF last.valid
                  THEN last @@ [stations |-> stations, measurements |-> measurements]
                  ELSE NoSnapshot]
    /\ last' = NoLast
    /\ UNCHANGED <<stations, measurements, nextMeasurementId, now, deleted_count,
                   stationRows, stationsCount, measurementRows, measurementsCount,
                   i, response, audit, ticks, sweeps>>
    /\ UNCHANGED <<pureVars, clientVars>>

\* fetch(NDBC_STATION_TABLE_URL) rejects: the catch branch
FetchStationsThrows(r) ==
    /\ pc[r] = "fetchStations"
    /\ audit' = [audit EXCEPT ![r].fetchFailed = @ \cup {"stations"},
                              ![r].threw = @ \cup {"stations"}]
    /\ Catch(r)
    /\ solo' = Disturb(r)
    /\ UNCHANGED <<storeVars, logId, stationRows, stationsCount, measurementRows,
                   measurementsCount, i, pred, faults, ticks, sweeps>>
    /\ UNCHANGED <<pureVars, clientVars>>

\* the handler with the station loop left out: after the station fetch it
\* goes straight to the observations
FetchStations_skipsStationLoop(r) ==
    /\ pc[r] = "fetchStations"
    /\ \E k \in 1..Len(StationFeeds) :
        /\ stationRows' = [stationRows EXCEPT ![r] = StationFeedRows[k]]
        /\ audit' = [audit EXCEPT ![r].stationFeed = k,
                                  ![r].fetchFailed =
                                      IF k = Len(StationFeeds) THEN @ \cup {"stations"}
                                      ELSE @]
    /\ stationsCount' = [stationsCount EXCEPT ![r] = 0]
    /\ i' = [i EXCEPT ![r] = 0]
    /\ pc' = [pc EXCEPT ![r] = "fetchObs"]
    /\ solo' = Disturb(r)
    /\ last' = NoLast
    /\ UNCHANGED <<storeVars, logId, measurementRows, measurementsCount, response,
                   pred, faults, ticks, sweeps>>
    /\ UNCHANGED <<pureVars, clientVars>>

\* fetch resolves, whatever the status: the body is read and parsed.  The
\* last body of StationFeeds is the one a non-2xx response carries.
FetchStations(r) ==
    /\ pc[r] = "fetchStations"
    /\ \E k \in 1..Len(StationFeeds) :
        /\ stationRows' = [stationRows EXCEPT ![r] = StationFeedRows[k]]
        /\ audit' = [audit EXCEPT ![r].stationFeed = k,
                                  ![r].fetchFailed =
                                      IF k = Len(StationFeeds) THEN @ \cup {"stations"}
                                      ELSE @]
    /\ stationsCount' = [stationsCount EXCEPT ![r] = 0]
    /\ i' = [i EXCEPT ![r] = 0]
    /\ pc' = [pc EXCEPT ![r] = IF 0 < Len(stationRows'[r]) THEN "upsertStations"
                               ELSE "fetchObs"]
    /\ solo' = Disturb(r)
    /\ last' = NoLast
    /\ UNCHANGED <<storeVars, logId, measurementRows, measurementsCount, response,
                   pred, faults, ticks, sweeps>>
    /\ UNCHANGED <<pureVars, clientVars>>

\* one turn of the station loop: no try around the await
UpsertStationBatch(r) ==
    /\ pc[r] = "upsertStations"
    /\ \E reaches \in Reaches :
        LET batch == SubSeq(stationRows[r], i[r] + 1,
                            Min(i[r] + STATION_BATCH, Len(stationRows[r])))
            result == IF reaches THEN UpsertStations(stations, batch, now)
                      ELSE [ok |-> FALSE, tbl |-> stations]
            n == audit[r].stationAttempts + 1
        IN  /\ stations' = result.tbl
            /\ faults' = IF reaches THEN faults ELSE faults + 1
            /\ audit' = [audit EXCEPT
                  ![r].stationAttempts = n,
                  ![r].stationFailures = IF result.ok THEN @ ELSE @ \cup {n},
                  ![r].stationsWritten = IF result.ok THEN @ + Len(batch) ELSE @,
                  ![r].fault = @ \/ ~reaches]
            /\ IF UpsertThrows(result)
               THEN /\ Catch(r)
                    /\ UNCHANGED <<stationsCount, i>>
               ELSE /\ stationsCount' = [stationsCount EXCEPT ![r] = @ + Len(batch)]
                    /\ i' = [i EXCEPT ![r] = @ + STATION_BATCH]
                    /\ pc' = [pc EXCEPT ![r] =
                                IF i'[r] < Len(stationRows[r]) THEN "upsertStations"
                                ELSE "fetchObs"]
                    /\ UNCHANGED response
                    /\ last' = NoLast
    /\ solo' = Disturb(r)
    /\ UNCHANGED <<measurements, ingestion_log, nextMeasurementId, now,
                   deleted_count, logId, stationRows, measurementRows,
                   measurementsCount, pred, ticks, sweeps>>
    /\ UNCHANGED <<pureVars, clientVars>>

\* fetch(NDBC_LATEST_OBS_URL) rejects: the catch branch
FetchObsThrows(r) ==
    /\ pc[r] = "fetchObs"
    /\ audit' = [audit EXCEPT ![r].fetchFailed = @ \cup {"obs"},
                              ![r].threw = @ \cup {"obs"}]
    /\ Catch(r)
    /\ solo' = Disturb(r)
    /\ UNCHANGED <<storeVars, logId, stationRows, stationsCount, measurementRows,
                   measurementsCount, i, pred, faults, ticks, sweeps>>
    /\ UNCHANGED <<pureVars, clientVars>>

FetchObs(r) ==
    /\ pc[r] = "fetchObs"
    /\ \E k \in 1..Len(ObsFeeds) :
        /\ measurementRows' = [measurementRows EXCEPT ![r] = ObsFeedRows[k]]
        /\ audit' = [audit EXCEPT ![r].obsFeed = k,
                                  ![r].fetchFailed =
                                      IF k = Len(ObsFeeds) THEN @ \cup {"obs"} ELSE @]
    /\ measurementsCount' = [measurementsCount EXCEPT ![r] = 0]
    /\ i' = [i EXCEPT ![r] = 0]
    /\ pc' = [pc EXCEPT ![r] = IF 0 < Len(measurementRows'[r]) THEN "upsertMeasurements"
                               ELSE "updateLog"]
    /\ solo' = Disturb(r)
    /\ last' = NoLast
    /\ UNCHANGED <<storeVars, logId, stationRows, stationsCount, response,
                   pred, faults, ticks, sweeps>>
    /\ UNCHANGED <<pureVars, clientVars>>

\* one turn of the measurement loop: the await is inside try/catch, and a
\* batch that throws is skipped without being counted
UpsertMeasurementBatch(r) ==
    /\ pc[r] = "upsertMeasurements"
    /\ \E reaches \in Reaches :
        LET batch == SubSeq(measurementRows[r], i[r] + 1,
                            Min(i[r] + MEAS_BATCH, Len(measurementRows[r])))
            result == IF reaches
                      THEN UpsertMeasurements(measurements, stations, batch, now,
                                              nextMeasurementId)
                      ELSE [ok |-> FALSE, tbl |-> measurements,
                            nextId |-> nextMeasurementId]
            n == audit[r].measAttempts + 1
        IN  /\ measurements' = result.tbl
            /\ nextMeasurementId' = result.nextId
            /\ faults' = IF reaches THEN faults ELSE faults + 1
            /\ audit' = [audit EXCEPT
                  ![r].measAttempts = n,
                  ![r].measFailures = IF result.ok THEN @ ELSE @ \cup {n},
                  ![r].measWritten = IF result.ok THEN @ + Len(batch) ELSE @,
                  ![r].measNew = @ \cup ({MeasKey(m) : m \in result.tbl}
                                           \ {MeasKey(m) : m \in measurements}),
                  ![r].fault = @ \/ ~reaches]
            /\ measurementsCount' =
                  [measurementsCount EXCEPT ![r] =
                      IF UpsertThrows(result) THEN @ ELSE @ + Len(batch)]
    /\ i' = [i EXCEPT ![r] = @ + MEAS_BATCH]
    /\ pc' = [pc EXCEPT ![r] = IF i'[r] < Len(measurementRows[r])
                               THEN "upsertMeasurements" ELSE "updateLog"]
    /\ solo' = Disturb(r)
    /\ last' = NoLast
    /\ UNCHANGED <<stations, ingestion_log, now, deleted_count, logId, stationRows,
                   stationsCount, measurementRows, response, pred, ticks, sweeps>>
    /\ UNCHANGED <<pureVars, clientVars>>

\* if (logId) update ingestion_log ... eq("id", logId); then the 200 response
UpdateLog(r) ==
    /\ pc[r] = "updateLog"
    /\ \E reaches \in Reaches :
        /\ IF logId[r] # 0 /\ reaches
           THEN /\ ingestion_log' = [ingestion_log EXCEPT ![logId[r]] =
                    [@ EXCEPT !.finished_at = now, !.status = "success",
                              !.stations_count = stationsCount[r],
                              !.measurements_count = measurementsCount[r]]]
                /\ audit' = [audit EXCEPT ![r].logUpdates = @ + 1,
                                          ![r].completion = TRUE]
           ELSE /\ UNCHANGED ingestion_log
                /\ audit' = [audit EXCEPT ![r].completion = TRUE]
        /\ faults' = IF reaches \/ logId[r] = 0 THEN faults ELSE faults + 1
    /\ response' = [response EXCEPT ![r] = 200]
    /\ pc' = [pc EXCEPT ![r] = "done"]
    /\ last' = Completed(r)
    /\ solo' = Disturb(r)
    /\ UNCHANGED <<stations, measurements, nextMeasurementId, now, deleted_count,
                   logId, stationRows, stationsCount, measurementRows,
                   measurementsCount, i, pred, ticks, sweeps>>
    /\ UNCHANGED <<pureVars, clientVars>>

\* cleanup_old_measurements(p_days), called on its own schedule
Cleanup ==
    /\ sweeps < MaxSweeps
    /\ \E p_days \in SweepDays :
        /\ measurements' = measurements \ SweptRows(measurements, now, p_days)
        /\ deleted_count' = Cardinality(SweptRows(measurements, now, p_days))
    /\ sweeps' = sweeps + 1
    /\ solo' = [q \in Runs |-> FALSE]
    /\ last' = NoLast
    /\ UNCHANGED <<stations, ingestion_log, nextMeasurementId, now, runVars, audit,
                   pred, faults, ticks>>
    /\ UNCHANGED <<pureVars, clientVars>>

\* an hour passes; a run is taken to last less than an hour, so the clock
\* does not advance while a run is between its first and its last step
Tick ==
    /\ ticks < MaxTicks
    /\ \A r \in Runs : pc[r] \in {"idle", "done"}
    /\ now' = Instant(now.day, now.min + 60)
    /\ ticks' = ticks + 1
    /\ UNCHANGED <<stations, measurements, ingestion_log, nextMeasurementId,
                   deleted_count, runVars, audit, solo, pred, last, faults, sweeps>>
    /\ UNCHANGED <<pureVars, clientVars>>

Next ==
    \/ \E r \in Runs :
        \/ Start(r)
        \/ FetchStationsThrows(r)
        \/ FetchStations(r)
        \/ UpsertStationBatch(r)
        \/ FetchObsThrows(r)
        \/ FetchObs(r)
        \/ UpsertMeasurementBatch(r)
        \/ UpdateLog(r)
    \/ Cleanup
    \/ Tick

Spec == Init /\ [][Next]_vars

-----------------------------------------------------------------------------
(* The helpers and parsers on their own: an input is drawn, the function *)
(* is applied to it                                                       *)

Pending == [k |-> "pending", m |-> 0, e |-> 0]

\* the longest token given to safeFloat, and its characters
MaxTokenLen == 4
FloatChars == {"0", "1", "9", ".", "-", "M", " "}
FloatTokens == UNION {[1..n -> FloatChars] : n \in 0..MaxTokenLen}

InitFloat ==
    /\ InitStore /\ InitRuns /\ InitHist /\ InitClient
    /\ fn = "safeFloat"
    /\ arg \in FloatTokens
    /\ res = Pending

ApplySafeFloat ==
    /\ fn = "safeFloat"
    /\ res = Pending
    /\ res' = safeFloat(arg)
    /\ UNCHANGED <<fn, arg, storeVars, runVars, histVars, clientVars>>

SpecFloat == InitFloat /\ [][ApplySafeFloat]_vars

\* a coordinate token is made of at most MaxCoordPieces of these pieces
MaxCoordPieces == 3
CoordPieces ==
    {<<"2", "3", ".", "5">>, <<"7">>, <<".">>, <<" ">>, <<"-">>, <<"x">>,
     <<"N">>, <<"S">>, <<"E">>, <<"w">>}

RECURSIVE Concat(_)
Concat(q) == IF q = <<>> THEN <<>> ELSE Head(q) \o Concat(Tail(q))

CoordTokens ==
    {Concat(q) : q \in UNION {[1..n -> CoordPieces] : n \in 0..MaxCoordPieces}}

InitCoord ==
    /\ InitStore /\ InitRuns /\ InitHist /\ InitClient
    /\ fn = "parseCoord"
    /\ arg \in CoordTokens
    /\ res = Pending

ApplyParseCoord ==
    /\ fn = "parseCoord"
    /\ res = Pending
    /\ res' = parseCoord(arg)
    /\ UNCHANGED <<fn, arg, storeVars, runVars, histVars, clientVars>>

SpecCoord == InitCoord /\ [][ApplyParseCoord]_vars

\* a text is made of at most MaxLines of these lines, joined by line feeds
MaxLines == 3

GoodStationLine == StationLine(Id41001, <<"A">>, Lat347N, Lon727W)
GoodObsLine ==
    ObsLine(Id41001, Y2024, <<"0", "1">>, <<"1", "5">>, <<"1", "2">>, <<"0", "0">>,
            <<"5", ".", "0">>, <<"1", ".", "2">>, <<"2", "0", ".", "1">>)

\* comment, separator, too few fields, identifier that is not five digits,
\* coordinate without a number, coordinate whose number is a lone dot
BadStationLines ==
    {StationHeader, StationRule,
     Join(<<Id42001, <<"B">>, Lat347N>>, <<"|">>),
     StationLine(<<"4", "1", "0", "0">>, <<"B">>, Lat347N, Lon727W),
     StationLine(Id42001, <<"B">>, <<"N">>, Lon727W),
     StationLine(Id42001, <<"B">>, <<".", " ", "N">>, Lon727W)}

\* comment, too few fields, identifier that is not five digits, no date
BadObsLines ==
    {<<"#", "S", "T", "N">>,
     Join(<<Id42001, Y2024, <<"0", "1">>>>, <<" ">>),
     ObsLine(<<"4", "2", "0", "0", "1", "0">>, Y2024, <<"0", "1">>, <<"1", "5">>,
             <<"1", "2">>, <<"0", "0">>, MM, MM, MM),
     ObsLine(Id42001, MM, MM, MM, MM, MM, MM, MM, MM)}

ParseLines ==
    {GoodStationLine, GoodObsLine, GoodObsLine \o <<"\r">>, <<>>}
        \cup BadStationLines \cup BadObsLines

InitParse ==
    /\ InitStore /\ InitRuns /\ InitHist /\ InitClient
    /\ fn = "parse"
    /\ arg \in UNION {[1..n -> ParseLines] : n \in 0..MaxLines}
    /\ res = Pending

\* both parsers applied to the text made of the lines of arg
ApplyParsers ==
    /\ fn = "parse"
    /\ res = Pending
    /\ res' = [stations |-> parseStations(Join(arg, <<"\n">>)),
               measurements |-> parseLatestObs(Join(arg, <<"\n">>))]
    /\ UNCHANGED <<fn, arg, storeVars, runVars, histVars, clientVars>>

SpecParse == InitParse /\ [][ApplyParsers]_vars

\* the date tokens of an observation line: year, month, day, hour, minute
DateYears == {Y2024, <<"2", "4">>, <<"2", "0", "2", "4", "x">>, MM}
DateMonths == {<<"0", "1">>, <<"0", "2">>, <<"1", "2">>, <<"1", "3">>, <<"0", "0">>, MM}
DateDays == {<<"1", "5">>, <<"3", "0">>, <<"3", "2">>, MM}
DateHours == {<<"1", "2">>, <<"2", "3">>, <<"2", "4">>, MM}
DateMinutes == {<<"0", "0">>, <<"5", "9">>, <<"6", "0">>, MM}

\* the line after the one under test: an older reading of another station
LaterObsLine ==
    ObsLine(Id46042, Y2023, <<"1", "2">>, <<"0", "1">>, <<"0", "0">>, <<"0", "0">>,
            <<"3", ".", "1">>, MM, <<"1", "5", ".", "5">>)

\* a line of station 42001 with the date tokens d, between two good lines
DatedText(d) ==
    Join(<<GoodObsLine,
           ObsLine(Id42001, d[1], d[2], d[3], d[4], d[5], <<"5", ".", "0">>, MM, MM),
           LaterObsLine>>, <<"\n">>)

InitDate ==
    /\ InitStore /\ InitRuns /\ InitHist /\ InitClient
    /\ fn = "parseLatestObs"
    /\ arg \in DateYears \X DateMonths \X DateDays \X DateHours \X DateMinutes
    /\ res = Pending

ApplyParseLatestObs ==
    /\ fn = "parseLatestObs"
    /\ res = Pending
    /\ res' = [measurements |-> parseLatestObs(DatedText(arg))]
    /\ UNCHANGED <<fn, arg, storeVars, runVars, histVars, clientVars>>

SpecDate == InitDate /\ [][ApplyParseLatestObs]_vars

\* an identifier given to classifyRegion: at most MaxIdPrefix of these
\* characters, alone or followed by two more digits
MaxIdPrefix == 3
RegionChars == {"4", "5", "1", "2", "6", "0", "9", "x"}
RegionIds ==
    {p \o q : p \in UNION {[1..n -> RegionChars] : n \in 0..MaxIdPrefix},
              q \in {<<>>, <<"0", "1">>}}

InitRegion ==
    /\ InitStore /\ InitRuns /\ InitHist /\ InitClient
    /\ fn = "classifyRegion"
    /\ arg \in RegionIds
    /\ res = Pending

ApplyClassifyRegion ==
    /\ fn = "classifyRegion"
    /\ res = Pending
    /\ res' = [region |-> classifyRegion(arg)]
    /\ UNCHANGED <<fn, arg, storeVars, runVars, histVars, clientVars>>

SpecRegion == InitRegion /\ [][ApplyClassifyRegion]_vars

\* the fields of a station line: identifier, name, latitude token,
\* longitude token, and what follows the fourth separator
LineIds == {Id41001, Id42001, Id99999, <<"4", "1", "0", "0">>, <<"4", "1", "0", "0", "x">>}
LineNames == {<<"A">>, <<"L", "L", "N", "R", " ", "8", "1", "5">>, <<>>, <<" ">>}
LineLats ==
    {Lat347N, <<"3", "6", ".", "8", " ", "S">>, <<"3", "4", ".", "7", "N">>,
     <<".", " ", "N">>, <<"N">>, <<"9", "5", ".", "0", " ", "N">>}
LineLons == {Lon727W, <<"1", "2", "2", ".", "4", " ", "E">>, <<"x">>}
LineTails == {<<>>, <<"x", "|">>, <<"5", " ", "E", "|">>}

InitStationLine ==
    /\ InitStore /\ InitRuns /\ InitHist /\ InitClient
    /\ fn = "parseStations"
    /\ arg \in LineIds \X LineNames \X LineLats \X LineLons \X LineTails
    /\ res = Pending

ApplyParseStations ==
    /\ fn = "parseStations"
    /\ res = Pending
    /\ res' = [stations |->
                 parseStations(StationLine(arg[1], arg[2], arg[3], arg[4]) \o arg[5])]
    /\ UNCHANGED <<fn, arg, storeVars, runVars, histVars, clientVars>>

SpecStationLine == InitStationLine /\ [][ApplyParseStations]_vars

-----------------------------------------------------------------------------
(* The query functions of the schema, applied to stores drawn from a      *)
(* bounded set of tables                                                   *)

\* ORDER BY on a TEXT column: the values of region in their collation order
RegionCollation ==
    <<"atlantic", "great_lakes", "gulf", "other", "pacific", "unknown">>

RegionRank(r) == CHOOSE k \in 1..Len(RegionCollation) : RegionCollation[k] = r

\* the characters of the station names, in their collation order
NameCollation == <<"2", "A", "B", "C">>

CharRank(c) == CHOOSE k \in 1..Len(NameCollation) : NameCollation[k] = c

\* a <= b for two texts
RECURSIVE TextLeq(_, _)
TextLeq(a, b) ==
    IF a = <<>> THEN TRUE
    ELSE IF b = <<>> THEN FALSE
    ELSE IF a[1] = b[1] THEN TextLeq(Tail(a), Tail(b))
    ELSE CharRank(a[1]) < CharRank(b[1])

\* now() - (n || ' hours')::INTERVAL and now() - (n || ' days')::INTERVAL
HoursBefore(t, n) == Instant(t.day, t.min - 60 * n)
DaysBefore(t, n) == [day |-> t.day - n, min |-> t.min]

\* ORDER BY observed_at ASC LIMIT 1 in the lateral subquery
LatestOf_oldest(tbl, id) ==
    {m \in tbl : /\ m.station_id = id
                 /\ \A o \in tbl : o.station_id = id =>
                        ~Before(o.observed_at, m.observed_at)}

\* SELECT ... FROM measurements m WHERE m.station_id = s.id
\* ORDER BY m.observed_at DESC LIMIT 1: the rows the subquery may give
LatestOf(tbl, id) ==
    {m \in tbl : /\ m.station_id = id
                 /\ \A o \in tbl : o.station_id = id =>
                        ~Before(m.observed_at, o.observed_at)}

\* one row of get_stations_with_latest: station s LEFT JOIN LATERAL its
\* latest measurement m, or nulls when lat is empty
WithLatestRow(s, lat) ==
    LET Joined(m) ==
            [station_id |-> s.id, station_name |-> s.name,
             latitude |-> s.latitude, longitude |-> s.longitude,
             region |-> s.region, station_type |-> s.station_type,
             is_active |-> s.is_active, observed_at |-> m.observed_at,
             wave_height |-> m.wave_height, wind_speed |-> m.wind_speed,
             wind_direction |-> m.wind_direction, water_temp |-> m.water_temp,
             air_temp |-> m.air_temp, pressure |-> m.pressure]
    IN  IF lat = {}
        THEN Joined([observed_at |-> Null, wave_height |-> Null,
                     wind_speed |-> Null, wind_direction |-> Null,
                     water_temp |-> Null, air_temp |-> Null, pressure |-> Null])
        ELSE Joined(CHOOSE m \in lat : TRUE)

\* ORDER BY s.region, s.name: every order of the rows the clause allows
RECURSIVE OrderedByRegionName(_)
OrderedByRegionName(rows) ==
    IF rows = {} THEN {<<>>}
    ELSE UNION {{<<x>> \o q : q \in OrderedByRegionName(rows \ {x})} :
                  x \in {x \in rows : \A y \in rows :
                           \/ RegionRank(x.region) < RegionRank(y.region)
                           \/ /\ x.region = y.region
                              /\ TextLeq(x.station_name, y.station_name)}}

\* get_stations_with_latest(): the results it may return
get_stations_with_latest(stationTbl, measTbl) ==
    OrderedByRegionName({WithLatestRow(s, LatestOf(measTbl, s.id)) :
                           s \in {s \in stationTbl : s.is_active}})

\* one row of get_station_timeseries
TimeseriesRow(m) ==
    [observed_at |-> m.observed_at, wave_height |-> m.wave_height,
     dominant_period |-> m.dominant_period, wave_direction |-> m.wave_direction,
     wind_speed |-> m.wind_speed, wind_direction |-> m.wind_direction,
     wind_gust |-> m.wind_gust, water_temp |-> m.water_temp,
     air_temp |-> m.air_temp, pressure |-> m.pressure]

\* ORDER BY m.observed_at ASC
RECURSIVE OrderedByObservedAt(_)
OrderedByObservedAt(rows) ==
    IF rows = {} THEN {<<>>}
    ELSE UNION {{<<x>> \o q : q \in OrderedByObservedAt(rows \ {x})} :
                  x \in {x \in rows : \A y \in rows :
                           ~Before(y.observed_at, x.observed_at)}}

\* get_station_timeseries(p_station_id, p_hours)
get_station_timeseries(measTbl, t, p_station_id, p_hours) ==
    OrderedByObservedAt(
        {TimeseriesRow(m) :
           m \in {m \in measTbl :
                    /\ m.station_id = p_station_id
                    /\ ~Before(m.observed_at, HoursBefore(t, p_hours))}})

\* BETWEEN taken for a range open at both ends
Between_exclusive(v, lo, hi) == ~NumLeq(v, lo) /\ ~NumLeq(hi, v)

\* v BETWEEN lo AND hi
Between(v, lo, hi) == NumLeq(lo, v) /\ NumLeq(v, hi)

\* one row of get_stations_in_bbox
BBoxRow(s, lat) ==
    LET Joined(m) ==
            [station_id |-> s.id, station_name |-> s.name,
             latitude |-> s.latitude, longitude |-> s.longitude,
             region |-> s.region, station_type |-> s.station_type,
             water_temp |-> m.water_temp, wave_height |-> m.wave_height,
             wind_speed |-> m.wind_speed, observed_at |-> m.observed_at]
    IN  IF lat = {}
        THEN Joined([water_temp |-> Null, wave_height |-> Null,
                     wind_speed |-> Null, observed_at |-> Null])
        ELSE Joined(CHOOSE m \in lat : TRUE)

\* ORDER BY s.name
RECURSIVE OrderedByName(_)
OrderedByName(rows) ==
    IF rows = {} THEN {<<>>}
    ELSE UNION {{<<x>> \o q : q \in OrderedByName(rows \ {x})} :
                  x \in {x \in rows : \A y \in rows :
                           TextLeq(x.station_name, y.station_name)}}

\* get_stations_in_bbox(p_min_lat, p_min_lon, p_max_lat, p_max_lon)
get_stations_in_bbox(stationTbl, measTbl, box) ==
    OrderedByName(
        {BBoxRow(s, LatestOf(measTbl, s.id)) :
           s \in {s \in stationTbl :
                    /\ s.is_active
                    /\ Between(s.latitude, box.p_min_lat, box.p_max_lat)
                    /\ Between(s.longitude, box.p_min_lon, box.p_max_lon)}})

\* count(*) over all stations instead of the active ones
CountActive_all(stationTbl) == Cardinality(stationTbl)

\* (SELECT count(*) FROM stations WHERE is_active)
CountActive(stationTbl) == Cardinality({s \in stationTbl : s.is_active})

\* min(observed_at) and max(observed_at): null over no rows
MinObservedAt(measTbl) ==
    IF measTbl = {} THEN Null
    ELSE (CHOOSE m \in measTbl :
            \A o \in measTbl : ~Before(o.observed_at, m.observed_at)).observed_at

MaxObservedAt(measTbl) ==
    IF measTbl = {} THEN Null
    ELSE (CHOOSE m \in measTbl :
            \A o \in measTbl : ~Before(m.observed_at, o.observed_at)).observed_at

\* one row of get_pipeline_status, for the run record il
StatusRow(il, stationTbl, measTbl) ==
    [last_run |-> il.started_at, status |-> il.status,
     stations_count |-> il.stations_count,
     measurements_count |-> il.measurements_count,
     total_stations |-> CountActive(stationTbl),
     total_measurements |-> Cardinality(measTbl),
     oldest_measurement |-> MinObservedAt(measTbl),
     newest_measurement |-> MaxObservedAt(measTbl)]

\* get_pipeline_status(): FROM ingestion_log il ORDER BY il.started_at DESC
\* LIMIT 1, the results it may return (no row over an empty log, any of the
\* records that started last otherwise)
get_pipeline_status(logTbl, stationTbl, measTbl) ==
    IF logTbl = <<>> THEN {<<>>}
    ELSE {<<StatusRow(logTbl[k], stationTbl, measTbl)>> :
            k \in {k \in 1..Len(logTbl) :
                     \A j \in 1..Len(logTbl) :
                        ~Before(logTbl[k].started_at, logTbl[j].started_at)}}

\* NDBCService.getPipelineStatus: data?.[0] || null
getPipelineStatus(rows) == IF rows = <<>> THEN Null ELSE rows[1]

\* the stations a drawn store may hold: three the pipeline wrote, one with
\* the region and the name of another, and one an operator has set inactive
QueryStation(id, name, lat, lon, active) ==
    [StationTableRow(StationRow(id, name, lat, lon), StartTime, StartTime)
        EXCEPT !.is_active = active]

Id44001 == <<"4", "4", "0", "0", "1">>

QueryStations ==
    {QueryStation(Id41001, <<"A">>, Num(347, 1), Num(-727, 1), TRUE),
     QueryStation(Id44001, <<"A">>, Num(357, 1), Num(-727, 1), TRUE),
     QueryStation(Id42001, <<"B">>, Num(259, 1), Num(-897, 1), TRUE),
     QueryStation(Id46042, <<"A", "2">>, Num(-368, 1), Num(1224, 1), TRUE),
     QueryStation(Id51001, <<"C">>, Num(347, 1), Num(-727, 1), FALSE)}

\* a measurement row whose readings tell it from the others
QueryMeasurement(id, station, at, reading) ==
    [id |-> id, station_id |-> station, observed_at |-> at,
     wind_direction |-> Num(reading, 0), wind_speed |-> Num(reading, 1),
     wind_gust |-> Null, wave_height |-> Num(reading + 10, 1),
     dominant_period |-> Null, wave_direction |-> Null,
     pressure |-> Num(10000 + reading, 1), air_temp |-> Null,
     water_temp |-> Num(200 + reading, 1), dewpoint |-> Null,
     visibility |-> Null, ingested_at |-> StartTime]

\* the window of the time series the client asks for by default
DefaultHours == 48

\* measurements at now - 48 h, one minute before that, now, one hour after
\* now (a feed may carry any date), and one of 31 days ago
QueryMeasurements ==
    {QueryMeasurement(1, Id41001, HoursBefore(StartTime, DefaultHours), 1),
     QueryMeasurement(2, Id41001,
                      Instant(StartTime.day, StartTime.min - 60 * DefaultHours - 1), 2),
     QueryMeasurement(3, Id41001, StartTime, 3),
     QueryMeasurement(4, Id41001, HoursBefore(StartTime, -1), 4),
     QueryMeasurement(5, Id42001, DaysBefore(StartTime, 31), 5)}

QueryRun(id, at, status, count) ==
    [id |-> id, started_at |-> at, finished_at |-> Null, status |-> status,
     stations_count |-> count, measurements_count |-> count,
     error_message |-> Null, source |-> "ndbc-edge"]

\* no run, one run, two runs an hour apart, two runs started together
QueryLogs ==
    {<<>>,
     <<QueryRun(1, HoursBefore(StartTime, 1), "success", 3)>>,
     <<QueryRun(1, HoursBefore(StartTime, 1), "success", 3),
       QueryRun(2, StartTime, "running", 0)>>,
     <<QueryRun(1, StartTime, "success", 3), QueryRun(2, StartTime, "running", 0)>>}

QueryHours == {0, DefaultHours}

Box(min_lat, min_lon, max_lat, max_lon) ==
    [p_min_lat |-> min_lat, p_min_lon |-> min_lon,
     p_max_lat |-> max_lat, p_max_lon |-> max_lon]

\* the globe; a box with 41001 on its lower bounds and 44001 on its upper
\* latitude; the same box one degree north; a box whose minimum latitude
\* exceeds its maximum; a box whose minimum longitude exceeds its maximum
QueryBoxes ==
    {Box(Num(-90, 0), Num(-180, 0), Num(90, 0), Num(180, 0)),
     Box(Num(347, 1), Num(-727, 1), Num(357, 1), Num(-717, 1)),
     Box(Num(357, 1), Num(-727, 1), Num(367, 1), Num(-717, 1)),
     Box(Num(357, 1), Num(-180, 0), Num(347, 1), Num(180, 0)),
     Box(Num(-90, 0), Num(-717, 1), Num(90, 0), Num(-727, 1))}

QueryCalls ==
    {[fn |-> "get_stations_with_latest", arg |-> <<>>],
     [fn |-> "get_pipeline_status", arg |-> <<>>],
     [fn |-> "cleanup_old_measurements", arg |-> <<>>]}
    \cup {[fn |-> "get_station_timeseries",
           arg |-> [p_station_id |-> id, p_hours |-> h]] :
            id \in {Id41001, Id42001, Id99999}, h \in QueryHours}
    \cup {[fn |-> "get_stations_in_bbox", arg |-> b] : b \in QueryBoxes}

InitQuery ==
    /\ InitRuns /\ InitHist /\ InitClient
    /\ stations \in SUBSET QueryStations
    /\ measurements \in
         {ms \in SUBSET QueryMeasurements :
            \A m \in ms : \E s \in stations : s.id = m.station_id}
    /\ ingestion_log \in QueryLogs
    /\ nextMeasurementId = 6
    /\ now = StartTime
    /\ deleted_count = 0
    /\ \E c \in QueryCalls : fn = c.fn /\ arg = c.arg
    /\ res = Pending

GetStationsWithLatest ==
    /\ fn = "get_stations_with_latest"
    /\ res = Pending
    /\ \E rows \in get_stations_with_latest(stations, measurements) :
          res' = [rows |-> rows]
    /\ UNCHANGED <<fn, arg, storeVars, runVars, histVars, clientVars>>

GetStationTimeseries ==
    /\ fn = "get_station_timeseries"
    /\ res = Pending
    /\ \E rows \in get_station_timeseries(measurements, now, arg.p_station_id,
                                          arg.p_hours) :
          res' = [rows |-> rows]
    /\ UNCHANGED <<fn, arg, storeVars, runVars, histVars, clientVars>>

GetStationsInBBox ==
    /\ fn = "get_stations_in_bbox"
    /\ res = Pending
    /\ \E rows \in get_stations_in_bbox(stations, measurements, arg) :
          res' = [rows |-> rows]
    /\ UNCHANGED <<fn, arg, storeVars, runVars, histVars, clientVars>>

\* the RPC and what NDBCService.getPipelineStatus makes of its rows
GetPipelineStatus ==
    /\ fn = "get_pipeline_status"
    /\ res = Pending
    /\ \E rows \in get_pipeline_status(ingestion_log, stations, measurements) :
          res' = [rows |-> rows, status |-> getPipelineStatus(rows)]
    /\ UNCHANGED <<fn, arg, storeVars, runVars, histVars, clientVars>>

CleanupCall == fn = "cleanup_old_measurements" /\ Cleanup

NextQuery ==
    \/ GetStationsWithLatest
    \/ GetStationTimeseries
    \/ GetStationsInBBox
    \/ GetPipelineStatus
    \/ CleanupCall

SpecQuery == InitQuery /\ [][NextQuery]_vars

-----------------------------------------------------------------------------
(* The browser side: getAvailableSSTSource of sstDataSources.ts and the   *)
(* hooks useNDBCTimeseries and useNDBCStations                            *)

sstVars == <<probes, sstSource>>
hookVars == <<stationId, data, stationList, loading, error, pending, issued,
              settled>>
serverVars == <<storeVars, runVars, histVars, pureVars>>

\* the sources in order of priority, by their id
SST_DATA_SOURCES ==
    <<"noaa_nowcoast", "noaa_jpl_mur", "noaa_coralwatch", "nasa_gibs_modis">>

NOAA_JPL_MUR == "noaa_jpl_mur"

\* what the HEAD request of a probe may meet: a 2xx response, another
\* response, a network error, the 5 s AbortSignal
ProbeOutcomes == {"ok", "not_ok", "throws", "timeout"}

\* any response taken for an available source
testSSTDataSource_anyResponse(outcome) == outcome \in {"ok", "not_ok"}

\* testSSTDataSource: response.ok, and false from the catch branch
testSSTDataSource(outcome) == outcome = "ok"

\* one turn of the loop of getAvailableSSTSource: the next source is probed
\* and returned when available
TestNextSource ==
    /\ sstSource = "none"
    /\ Len(probes) < Len(SST_DATA_SOURCES)
    /\ \E outcome \in ProbeOutcomes :
         /\ probes' = Append(probes, [source |-> SST_DATA_SOURCES[Len(probes) + 1],
                                      outcome |-> outcome])
         /\ sstSource' = IF testSSTDataSource(outcome)
                         THEN SST_DATA_SOURCES[Len(probes) + 1]
                         ELSE "none"
    /\ UNCHANGED <<serverVars, hookVars>>

\* the loop has run out: return NOAA_JPL_MUR
ReturnDefaultSource ==
    /\ sstSource = "none"
    /\ Len(probes) = Len(SST_DATA_SOURCES)
    /\ sstSource' = NOAA_JPL_MUR
    /\ UNCHANGED <<probes, serverVars, hookVars>>

NextSST == TestNextSource \/ ReturnDefaultSource

SpecSST == Init /\ [][NextSST]_vars

\* the number of requests a mounted hook issues
MaxRequests == 3

\* the message of a rejected request
FetchError == "Failed to fetch"

\* the stations the user may click on the map
Selectable == {Id41001, Id42001}

\* what NDBCService.getStationTimeseries resolves with for a station: its
\* series, written as rows that name the station
SeriesOf(s) == <<[station_id |-> s, observed_at |-> StartTime]>>

\* fetchData of useNDBCTimeseries for the selection s, up to its await
fetchData(s) ==
    IF s = NoSelection
    THEN /\ data' = <<>>
         /\ UNCHANGED <<loading, error, pending, issued>>
    ELSE /\ loading' = TRUE
         /\ error' = NoError
         /\ pending' = pending \cup {[n |-> issued + 1, stationId |-> s]}
         /\ issued' = issued + 1
         /\ UNCHANGED data

\* setSelectedId(s) in NDBCStationMap: the hook renders with another
\* stationId and its effect calls the new fetchData
SelectStation ==
    /\ \E s \in Selectable \cup {NoSelection} :
         /\ s # stationId
         /\ s = NoSelection \/ issued < MaxRequests
         /\ stationId' = s
         /\ fetchData(s)
    /\ UNCHANGED <<settled, stationList, sstVars, serverVars>>

\* refetch of useNDBCTimeseries: fetchData for the current selection
RefetchTimeseries ==
    /\ stationId = NoSelection \/ issued < MaxRequests
    /\ fetchData(stationId)
    /\ UNCHANGED <<stationId, settled, stationList, sstVars, serverVars>>

\* a request of useNDBCTimeseries resolves: setData(result), setLoading(false)
TimeseriesResolves ==
    /\ \E req \in pending :
         /\ data' = SeriesOf(req.stationId)
         /\ pending' = pending \ {req}
         /\ settled' = [n |-> req.n, outcome |-> "ok",
                        payload |-> SeriesOf(req.stationId)]
    /\ loading' = FALSE
    /\ UNCHANGED <<stationId, error, issued, stationList, sstVars, serverVars>>

\* a request of useNDBCTimeseries rejects: setError(message),
\* setLoading(false)
TimeseriesRejects ==
    /\ \E req \in pending :
         /\ pending' = pending \ {req}
         /\ settled' = [n |-> req.n, outcome |-> "error", payload |-> <<>>]
    /\ error' = FetchError
    /\ loading' = FALSE
    /\ UNCHANGED <<stationId, data, issued, stationList, sstVars, serverVars>>

NextTimeseries ==
    \/ SelectStation
    \/ RefetchTimeseries
    \/ TimeseriesResolves
    \/ TimeseriesRejects

SpecTimeseries == Init /\ [][NextTimeseries]_vars

\* what NDBCService.getStationsWithLatest may resolve with: the result of
\* get_stations_with_latest over a store without stations, with one, with
\* two, with three
StationLists ==
    UNION {get_stations_with_latest(
               {s \in QueryStations : s.id \in ids},
               {m \in QueryMeasurements : m.station_id \in ids}) :
             ids \in {{}, {Id41001}, {Id41001, Id42001},
                      {Id41001, Id42001, Id46042}}}

\* useNDBCStations before its first effect: useState(true) for loading
InitStations ==
    /\ InitStore /\ InitRuns /\ InitHist /\ InitPure
    /\ probes = <<>>
    /\ sstSource = "none"
    /\ stationId = NoSelection
    /\ data = <<>>
    /\ stationList = <<>>
    /\ loading = TRUE
    /\ error = NoError
    /\ pending = {}
    /\ issued = 0
    /\ settled = NoRequest

\* fetchStations of useNDBCStations up to its await, called by the effect on
\* mount, by the interval and by refetch
CallFetchStations ==
    /\ issued < MaxRequests
    /\ error' = NoError
    /\ pending' = pending \cup {[n |-> issued + 1, stationId |-> NoSelection]}
    /\ issued' = issued + 1
    /\ UNCHANGED <<stationId, data, stationList, loading, settled, sstVars,
                   serverVars>>

\* a request of useNDBCStations resolves: setStations(data),
\* setLoading(false)
StationsResolve ==
    /\ \E req \in pending, list \in StationLists :
         /\ stationList' = list
         /\ pending' = pending \ {req}
         /\ settled' = [n |-> req.n, outcome |-> "ok", payload |-> list]
    /\ loading' = FALSE
    /\ UNCHANGED <<stationId, data, error, issued, sstVars, serverVars>>

\* a request of useNDBCStations rejects: setError(message), setLoading(false)
StationsReject ==
    /\ \E req \in pending :
         /\ pending' = pending \ {req}
         /\ settled' = [n |-> req.n, outcome |-> "error", payload |-> <<>>]
    /\ error' = FetchError
    /\ loading' = FALSE
    /\ UNCHANGED <<stationId, data, stationList, issued, sstVars, serverVars>>

NextStations == CallFetchStations \/ StationsResolve \/ StationsReject

SpecStations == InitStations /\ [][NextStations]_vars

-----------------------------------------------------------------------------
(* Properties of the pipeline *)

Done(r) == pc[r] = "done"

\* the number of turns of a batch loop over rows
NumBatches(rows, size) == (Len(rows) + size - 1) \div size

\* run r has returned 200 and was the second of two runs in succession that
\* were given the same two bodies
RerunOfSameFeeds(r) ==
    /\ Done(r) /\ response[r] = 200
    /\ solo[r]
    /\ pred[r].valid
    /\ pred[r].stationFeed = audit[r].stationFeed
    /\ pred[r].obsFeed = audit[r].obsFeed

StoreAsAfterFirstRun(r) ==
    /\ WithoutUpdatedAt(stations) = WithoutUpdatedAt(pred[r].stations)
    /\ measurements = pred[r].measurements

C2_MeasurementKeyUnique ==
    \A a, b \in measurements : MeasKey(a) = MeasKey(b) => a = b

\* C2 witness: two runs have each written measurements (both observation
\* feeds carry the key of station 41001 at 12:00), a sweep has run, and rows
\* remain.
C2_Witness ==
    /\ \E q, r \in Runs :
        /\ q # r
        /\ audit[q].measWritten > 0 /\ audit[r].measWritten > 0
        /\ ~solo[q] /\ ~solo[r]
    /\ sweeps > 0
    /\ measurements # {}

\* C3: if fetching a feed fails (network error or non-2xx response), the
\* run's record ends with status error and no row derived from that feed's
\* response is written.
C3_FetchFailureMarksRunError ==
    \A r \in Runs :
        Done(r) /\ audit[r].fetchFailed # {} /\ logId[r] # 0 =>
            /\ ingestion_log[logId[r]].status = "error"
            /\ "stations" \in audit[r].fetchFailed => audit[r].stationsWritten = 0
            /\ "obs" \in audit[r].fetchFailed => audit[r].measWritten = 0

\* C4: a run's record is created with status running, is updated exactly
\* once, at completion, to success or error, and once the invocation has
\* returned it is not left running and is not changed again.
C4_RunRecordClosedExactlyOnce ==
    \A r \in Runs :
        logId[r] # 0 =>
            /\ ~Done(r) => /\ ingestion_log[logId[r]].status = "running"
                           /\ audit[r].logUpdates = 0
            /\ Done(r) => /\ ingestion_log[logId[r]].status \in {"success", "error"}
                          /\ audit[r].logUpdates = 1

\* C5: a failed write batch, of stations or of measurements, does not keep
\* the later batches of the run from being attempted and does not make the
\* run a run-level error: the run reaches its completion step.
C5_BatchFailureDoesNotAbortRun ==
    \A r \in Runs :
        audit[r].stationFailures # {} \/ audit[r].measFailures # {} =>
            /\ response[r] = 500 => audit[r].threw # {}
            /\ Done(r) /\ audit[r].threw = {} =>
                /\ response[r] = 200
                /\ audit[r].completion
                /\ audit[r].stationAttempts =
                       NumBatches(stationRows[r], STATION_BATCH)
                /\ audit[r].measAttempts =
                       NumBatches(measurementRows[r], MEAS_BATCH)

\* C5 witness: a run has returned 200 although its first station batch
\* failed; the second station batch was attempted and written, and so were
\* the measurement batches, of which one was rejected.
C5_Witness ==
    \E r \in Runs :
        /\ Done(r) /\ response[r] = 200
        /\ audit[r].stationFailures = {1}
        /\ audit[r].stationAttempts = 2
        /\ audit[r].stationsWritten > 0
        /\ audit[r].measFailures # {}
        /\ audit[r].measAttempts = NumBatches(measurementRows[r], MEAS_BATCH)

\* C6: the stations_count and measurements_count of the run record and of
\* the response equal the number of rows the run actually wrote; the rows of
\* a batch that failed or was rejected are not counted.
C6_CountsAreRowsWritten ==
    \A r \in Runs :
        Done(r) /\ response[r] = 200 =>
            /\ stationsCount[r] = audit[r].stationsWritten
            /\ measurementsCount[r] = audit[r].measWritten
            /\ logId[r] # 0 /\ audit[r].logUpdates > 0 =>
                /\ ingestion_log[logId[r]].stations_count = audit[r].stationsWritten
                /\ ingestion_log[logId[r]].measurements_count = audit[r].measWritten

CoordInRange(v, bound) ==
    IsNum(v) /\ NumLeq(Num(0 - bound, 0), v) /\ NumLeq(v, Num(bound, 0))

StationInRange(s) == CoordInRange(s.latitude, 90) /\ CoordInRange(s.longitude, 180)

\* C9: every station record emitted by parseStations, and so every row of
\* stations, has latitude in [-90, 90] and longitude in [-180, 180].
C9_StationCoordinatesInRange ==
    /\ \A r \in Runs : \A k \in 1..Len(stationRows[r]) : StationInRange(stationRows[r][k])
    /\ \A s \in stations : StationInRange(s)

-----------------------------------------------------------------------------
(* Properties of the helpers and parsers *)

Sentinels == {Num(99, 0), Num(999, 0), Num(9999, 0)}

\* t is, as a whole, a decimal numeral: an optional sign, then digits with
\* at most one decimal point and at least one digit
IsNumeral(t) ==
    LET u == IF t # <<>> /\ t[1] \in {"+", "-"} THEN Tail(t) ELSE t
    IN  /\ \A k \in 1..Len(u) : u[k] \in Digits \cup {"."}
        /\ Cardinality({k \in 1..Len(u) : u[k] = "."}) <= 1
        /\ \E k \in 1..Len(u) : u[k] \in Digits

\* the value of a numeral
NumeralValue(t) ==
    LET u == IF t[1] \in {"+", "-"} THEN Tail(t) ELSE t
        digitsAt == {k \in 1..Len(u) : u[k] \in Digits}
        dot == {k \in 1..Len(u) : u[k] = "."}
        fraction == {k \in digitsAt : \E d \in dot : d < k}
        weight(k) == Pow10(Cardinality({j \in digitsAt : j > k}))
        RECURSIVE Sum(_)
        Sum(S) == IF S = {} THEN 0
                  ELSE LET k == CHOOSE k \in S : TRUE
                       IN  DigitVal(u[k]) * weight(k) + Sum(S \ {k})
        magnitude == Num(Sum(digitsAt), Cardinality(fraction))
    IN  IF t[1] = "-" THEN Neg(magnitude) ELSE magnitude

\* t begins with a numeral; the longest such beginning
NumeralPrefixes(t) == {n \in 1..Len(t) : IsNumeral(Take(t, n))}
LongestNumeral(t) ==
    Take(t, CHOOSE n \in NumeralPrefixes(t) : \A k \in NumeralPrefixes(t) : k <= n)

Applied(f) == fn = f /\ res # Pending

IsCoordForm(t) ==
    LET u == Trim(t)
    IN  /\ u # <<>>
        /\ ToUpper(u[Len(u)]) \in {"N", "S", "E", "W"}
        /\ LET number == Trim(Take(u, Len(u) - 1))
           IN  /\ number # <<>>
               /\ number[1] \in Digits \cup {"."}
               /\ IsNumeral(number)

CoordFormValue(t) ==
    LET u == Trim(t)
        number == NumeralValue(Trim(Take(u, Len(u) - 1)))
    IN  IF ToUpper(u[Len(u)]) \in {"S", "W"} THEN Neg(number) ELSE number

\* C8: parseCoord gives +NUMBER for "NUMBER N" and "NUMBER E", -NUMBER for
\* "NUMBER S" and "NUMBER W", and no value for a token not of this form.
C8_ParseCoordSignedOrNoValue ==
    Applied("parseCoord") =>
        IF IsCoordForm(arg) THEN res = CoordFormValue(arg) ELSE res = Null

\* the concatenation, in order, of what a parser gives for each line alone
RECURSIVE StationsLineByLine(_)
StationsLineByLine(lines) ==
    IF lines = <<>> THEN <<>>
    ELSE parseStations(Head(lines)) \o StationsLineByLine(Tail(lines))

RECURSIVE ObsLineByLine(_)
ObsLineByLine(lines) ==
    IF lines = <<>> THEN <<>>
    ELSE parseLatestObs(Head(lines)) \o ObsLineByLine(Tail(lines))

\* C10: a bad line (comment, separator, too few fields, identifier not of
\* five digits, unparsable coordinate) yields no record and has no effect on
\* the other lines: the records of a text are the in-order concatenation of
\* the records of each of its lines alone.
C10_BadLinesSkippedLineByLine ==
    Applied("parse") =>
        /\ res.stations = StationsLineByLine(arg)
        /\ res.measurements = ObsLineByLine(arg)
        /\ \A k \in 1..Len(arg) :
            /\ arg[k] \in BadStationLines => parseStations(arg[k]) = <<>>
            /\ arg[k] \in BadObsLines => parseLatestObs(arg[k]) = <<>>

\* a token is a run of n decimal digits
IsDigits(t, n) == Len(t) = n /\ \A k \in 1..n : t[k] \in Digits

IsLeapYear(y) == y % 4 = 0 /\ (y % 100 # 0 \/ y % 400 = 0)

DaysInMonth(y, m) ==
    IF m = 2 THEN (IF IsLeapYear(y) THEN 29 ELSE 28)
    ELSE IF m \in {4, 6, 9, 11} THEN 30 ELSE 31

\* the number of leap years in 1..y
LeapYearsTo(y) == y \div 4 - y \div 100 + y \div 400

\* days from 1970-01-01 to the calendar day y-m-d (m is 1..12)
RECURSIVE CivilDay(_, _, _)
CivilDay(y, m, d) ==
    IF m > 1 THEN DaysInMonth(y, m - 1) + CivilDay(y, m - 1, d)
    ELSE 365 * (y - 1970) + LeapYearsTo(y - 1) - LeapYearsTo(1969) + d - 1

\* the date tokens name a calendar minute: a four-digit year, a month
\* 01..12, a day of that month, an hour 00..23, a minute 00..59
WellFormedDate(d) ==
    /\ IsDigits(d[1], 4)
    /\ IsDigits(d[2], 2) /\ DigitsToInt(d[2]) \in 1..12
    /\ IsDigits(d[3], 2)
    /\ DigitsToInt(d[3]) \in 1..DaysInMonth(DigitsToInt(d[1]), DigitsToInt(d[2]))
    /\ IsDigits(d[4], 2) /\ DigitsToInt(d[4]) \in 0..23
    /\ IsDigits(d[5], 2) /\ DigitsToInt(d[5]) \in 0..59

DateInstant(d) ==
    [day |-> CivilDay(DigitsToInt(d[1]), DigitsToInt(d[2]), DigitsToInt(d[3])),
     min |-> DigitsToInt(d[4]) * 60 + DigitsToInt(d[5])]

\* station and instant of each record, in order
KeysOf(rows) == [k \in 1..Len(rows) |-> <<rows[k].station_id, rows[k].observed_at>>]

\* C11: a row with a malformed year, month, day, hour or minute yields no
\* measurement record and the rows around it are still parsed; a row with
\* well-formed components yields the UTC instant of exactly that year,
\* month (1-indexed), day, hour and minute.
C11_MalformedDateRowSkipped ==
    Applied("parseLatestObs") =>
        KeysOf(res.measurements) =
            <<<<Id41001, [day |-> 19737, min |-> 720]>>>>
            \o (IF WellFormedDate(arg) THEN <<<<Id42001, DateInstant(arg)>>>> ELSE <<>>)
            \o <<<<Id46042, [day |-> 19692, min |-> 0]>>>>

\* the region of a two-character prefix
RegionOfPrefix(p) ==
    CASE p \in {<<"4", "1">>, <<"4", "4">>} -> "atlantic"
      [] p = <<"4", "2">> -> "gulf"
      [] p = <<"4", "5">> -> "great_lakes"
      [] p \in {<<"4", "6">>, <<"5", "1">>, <<"5", "2">>} -> "pacific"
      [] OTHER -> "other"

\* C12: classifyRegion is a total function of the first two characters of
\* the identifier: 41 and 44 give atlantic, 42 gulf, 45 great_lakes, 46, 51
\* and 52 pacific, every other prefix (and a shorter identifier) other.
C12_RegionIsFunctionOfPrefix ==
    Applied("classifyRegion") => res.region = RegionOfPrefix(Take(arg, 2))

\* C12 witness: an identifier of prefix 44 has been classified atlantic and
\* is not the prefix alone.
C12_Witness ==
    /\ Applied("classifyRegion")
    /\ arg = <<"4", "4", "0", "0", "1">>
    /\ res.region = "atlantic"

\* the fields name a station: a five-digit identifier, a name that is not
\* blank, and two coordinate tokens of the form NUMBER DIRECTION
WellFormedStationLine(f) ==
    /\ IsDigits(f[1], 5)
    /\ Trim(f[2]) # <<>>
    /\ IsCoordForm(f[3])
    /\ IsCoordForm(f[4])

\* C13: a well-formed station line yields exactly one record: its id is
\* field 1, its latitude and longitude are the signed values of fields 3
\* and 4, its region is the classification of the id.
C13_WellFormedLineYieldsOneRecord ==
    Applied("parseStations") /\ WellFormedStationLine(arg) =>
        /\ Len(res.stations) = 1
        /\ res.stations[1].id = arg[1]
        /\ res.stations[1].latitude = CoordFormValue(arg[3])
        /\ res.stations[1].longitude = CoordFormValue(arg[4])
        /\ res.stations[1].region = RegionOfPrefix(Take(arg[1], 2))

\* C13 witness: the line 41001|LLNR 815|34.7 N|72.7 W| has given id 41001,
\* latitude 34.7, longitude -72.7, region atlantic.
C13_Witness ==
    /\ Applied("parseStations")
    /\ arg = <<Id41001, <<"L", "L", "N", "R", " ", "8", "1", "5">>, Lat347N, Lon727W, <<>>>>
    /\ Len(res.stations) = 1
    /\ res.stations[1].id = Id41001
    /\ res.stations[1].latitude = Num(347, 1)
    /\ res.stations[1].longitude = Num(0 - 727, 1)
    /\ res.stations[1].region = "atlantic"

\* C14: once a measurement row for a key (station_id, observed_at) exists,
\* no step changes it: a row that is there before a step and whose key is
\* there after the step is the same row, whatever the feed now reports.
C14_MeasurementNeverUpdated ==
    [][\A m \in measurements : \A n \in measurements' :
          MeasKey(m) = MeasKey(n) => m = n]_vars

\* the n-th batch of the measurement loop of run r
MeasBatch(r, n) ==
    SubSeq(measurementRows[r], (n - 1) * MEAS_BATCH + 1,
           Min(n * MEAS_BATCH, Len(measurementRows[r])))

\* a station row with this id exists
StationExists(id) == \E s \in stations : s.id = id

\* C15: every measurement row's station_id is the id of a station row; a
\* batch with a measurement of a station that does not exist is rejected,
\* and the run goes on to its completion instead of ending as an error.
C15_MeasurementStationExists ==
    /\ \A m \in measurements : StationExists(m.station_id)
    /\ \A r \in Runs : \A n \in 1..audit[r].measAttempts :
        (\E b \in Range(MeasBatch(r, n)) : ~StationExists(b.station_id)) =>
            /\ n \in audit[r].measFailures
            /\ response[r] # 500
            /\ Done(r) => response[r] = 200 /\ audit[r].completion

\* C15 witness: a run has returned 200 after its second measurement batch,
\* with a row of the unknown station 99999, was rejected and its first was
\* written.
C15_Witness ==
    \E r \in Runs :
        /\ Done(r) /\ response[r] = 200
        /\ audit[r].measFailures = {2}
        /\ \E b \in Range(MeasBatch(r, 2)) : b.station_id = Id99999
        /\ audit[r].measWritten > 0
        /\ \E m \in measurements : m.station_id = Id41001

\* C16: within a run no measurement upsert is issued before every station
\* upsert of the run has been issued and has returned.
C16_StationUpsertsBeforeMeasurementUpserts ==
    \A r \in Runs :
        /\ audit[r].measAttempts > 0 =>
               audit[r].stationAttempts = NumBatches(stationRows[r], STATION_BATCH)
        /\ pc[r] = "upsertStations" => audit[r].measAttempts = 0

\* C16 witness: a run is in its measurement loop, one measurement batch
\* issued, after a station loop of two batches.
C16_Witness ==
    \E r \in Runs :
        /\ pc[r] = "upsertMeasurements"
        /\ audit[r].measAttempts = 1
        /\ audit[r].stationAttempts = 2
        /\ NumBatches(stationRows[r], STATION_BATCH) = 2

\* C17: a run fetches the station list, fetches the observations, writes
\* stations, writes measurements, logs: nothing is written to stations or
\* measurements before both fetches have succeeded, so a run in which a
\* fetch fails has written nothing.
C17_BothFetchesBeforeAnyWrite ==
    \A r \in Runs :
        /\ audit[r].stationAttempts > 0 \/ audit[r].measAttempts > 0 =>
               /\ audit[r].stationFeed # 0 /\ audit[r].obsFeed # 0
               /\ audit[r].fetchFailed = {}
        /\ audit[r].fetchFailed # {} =>
               audit[r].stationsWritten = 0 /\ audit[r].measWritten = 0

\* C19: no step, of a run or of a sweep, removes a station row: the set of
\* station identifiers in stations never shrinks.
C19_StationsNeverRemoved ==
    [][{s.id : s \in stations} \subseteq {s.id : s \in stations'}]_vars

\* C19 witness: two runs on different station feeds have written stations,
\* a sweep has deleted measurements, and the stations of both feeds are
\* there.
C19_Witness ==
    /\ \E q, r \in Runs :
        /\ audit[q].stationFeed = 1 /\ audit[r].stationFeed = 2
        /\ audit[q].stationsWritten > 0 /\ audit[r].stationsWritten > 0
        /\ Done(q) /\ Done(r)
    /\ sweeps > 0 /\ deleted_count > 0
    /\ {Id41001, Id42001, Id46042, Id51001} \subseteq {s.id : s \in stations}

\* C20: a run adds at most one new measurement row per station, whatever
\* the observations feed holds.
C20_OneNewMeasurementPerStationPerRun ==
    \A r \in Runs : \A a, b \in audit[r].measNew : a[1] = b[1] => a = b

\* the columns of stations and of measurements that come from the feeds
StationData(tbl) ==
    {[id |-> s.id, name |-> s.name, latitude |-> s.latitude,
      longitude |-> s.longitude, region |-> s.region,
      station_type |-> s.station_type, is_active |-> s.is_active] : s \in tbl}

MeasData(tbl) ==
    {[station_id |-> m.station_id, observed_at |-> m.observed_at,
      wind_direction |-> m.wind_direction, wind_speed |-> m.wind_speed,
      wind_gust |-> m.wind_gust, wave_height |-> m.wave_height,
      dominant_period |-> m.dominant_period, wave_direction |-> m.wave_direction,
      pressure |-> m.pressure, air_temp |-> m.air_temp, water_temp |-> m.water_temp,
      dewpoint |-> m.dewpoint, visibility |-> m.visibility] : m \in tbl}

\* stations after the station batches of rows, one after the other
RECURSIVE StationsAfter(_, _)
StationsAfter(tbl, rows) ==
    IF rows = <<>> THEN tbl
    ELSE StationsAfter(UpsertStations(tbl, Take(rows, STATION_BATCH), now).tbl,
                       Drop(rows, Min(STATION_BATCH, Len(rows))))

\* measurements (and the identity sequence) after the measurement batches
RECURSIVE MeasAfter(_, _, _)
MeasAfter(store, stationTbl, rows) ==
    IF rows = <<>> THEN store
    ELSE MeasAfter(UpsertMeasurements(store.tbl, stationTbl, Take(rows, MEAS_BATCH),
                                      now, store.nextId),
                   stationTbl, Drop(rows, Min(MEAS_BATCH, Len(rows))))

\* the store after a run on the feeds f = <<k, o>> that nothing interleaves
\* with and whose requests all reach the store
AfterRunAlone(store, f) ==
    LET stationTbl == StationsAfter(store.stations, StationFeedRows[f[1]])
        meas == MeasAfter([tbl |-> store.measurements, nextId |-> store.nextId],
                          stationTbl, ObsFeedRows[f[2]])
    IN  [stations |-> stationTbl, measurements |-> meas.tbl, nextId |-> meas.nextId]

\* the feed columns of the store after a run on f and then a run on g,
\* from the empty store
SerialOutcome(f, g) ==
    LET store == AfterRunAlone(AfterRunAlone(
                     [stations |-> {}, measurements |-> {}, nextId |-> 1], f), g)
    IN  [stations |-> StationData(store.stations),
         measurements |-> MeasData(store.measurements)]

FeedsOf(r) == <<audit[r].stationFeed, audit[r].obsFeed>>

\* q and r are the two runs there have been, both have returned 200 with
\* every write request reaching the store, and no sweep has run
OnlyRuns(q, r) ==
    /\ q # r
    /\ Done(q) /\ response[q] = 200 /\ ~audit[q].fault
    /\ Done(r) /\ response[r] = 200 /\ ~audit[r].fault
    /\ \A p \in Runs \ {q, r} : pc[p] = "idle"
    /\ sweeps = 0

StoreIs(outcome) ==
    /\ StationData(stations) = outcome.stations
    /\ MeasData(measurements) = outcome.measurements

-----------------------------------------------------------------------------
(* Properties of the query functions *)

ActiveStations == {s \in stations : s.is_active}

MeasurementsOf(id) == {m \in measurements : m.station_id = id}

\* the measurement fields of row are the readings of measurement m
CarriesReadingsOf(row, m) ==
    /\ row.observed_at = m.observed_at
    /\ row.wave_height = m.wave_height
    /\ row.wind_speed = m.wind_speed
    /\ row.wind_direction = m.wind_direction
    /\ row.water_temp = m.water_temp
    /\ row.air_temp = m.air_temp
    /\ row.pressure = m.pressure

AllReadingsNull(row) ==
    /\ row.observed_at = Null
    /\ row.wave_height = Null
    /\ row.wind_speed = Null
    /\ row.wind_direction = Null
    /\ row.water_temp = Null
    /\ row.air_temp = Null
    /\ row.pressure = Null

\* C21: get_stations_with_latest returns one row per active station and none
\* for an inactive one; a row carries the readings of the station's
\* measurement with the greatest observed_at, or null in every measurement
\* field when the station has none; the rows are ordered by region, then name.
C21_OneRowPerActiveStationWithLatest ==
    Applied("get_stations_with_latest") =>
        /\ Len(res.rows) = Cardinality(ActiveStations)
        /\ \A s \in ActiveStations : \E k \in 1..Len(res.rows) :
              res.rows[k].station_id = s.id
        /\ \A k \in 1..Len(res.rows) : \E s \in ActiveStations :
              /\ res.rows[k].station_id = s.id
              /\ res.rows[k].station_name = s.name
              /\ res.rows[k].region = s.region
              /\ res.rows[k].latitude = s.latitude
              /\ res.rows[k].longitude = s.longitude
              /\ IF MeasurementsOf(s.id) = {}
                 THEN AllReadingsNull(res.rows[k])
                 ELSE \E m \in MeasurementsOf(s.id) :
                        /\ \A o \in MeasurementsOf(s.id) :
                              ~Before(m.observed_at, o.observed_at)
                        /\ CarriesReadingsOf(res.rows[k], m)
        /\ \A j, k \in 1..Len(res.rows) : j < k =>
              \/ RegionRank(res.rows[j].region) < RegionRank(res.rows[k].region)
              \/ /\ res.rows[j].region = res.rows[k].region
                 /\ TextLeq(res.rows[j].station_name, res.rows[k].station_name)

\* the call over a store with an inactive station, a station without
\* measurements and a station with several
C21_Witness ==
    /\ Applied("get_stations_with_latest")
    /\ stations # ActiveStations
    /\ Len(res.rows) >= 3
    /\ \E k \in 1..Len(res.rows) : AllReadingsNull(res.rows[k])
    /\ \E k \in 1..Len(res.rows) :
          Cardinality(MeasurementsOf(res.rows[k].station_id)) >= 2

\* the measurements of the station asked for whose observed_at lies in the
\* closed interval [now - p_hours, now]
InWindow ==
    {m \in MeasurementsOf(arg.p_station_id) :
       /\ ~Before(m.observed_at, HoursBefore(now, arg.p_hours))
       /\ ~Before(now, m.observed_at)}

\* C22: get_station_timeseries(station, hours) returns exactly the
\* measurements of that station whose observed_at lies in [now - hours, now],
\* in ascending observed_at order: one exactly at now - hours is included, an
\* earlier one is excluded, none later than now is returned, and an unknown
\* station yields an empty result.
C22_TimeseriesIsClosedWindow ==
    Applied("get_station_timeseries") =>
        /\ Len(res.rows) = Cardinality(InWindow)
        /\ \A m \in InWindow : \E k \in 1..Len(res.rows) :
              /\ res.rows[k].observed_at = m.observed_at
              /\ res.rows[k].wave_height = m.wave_height
              /\ res.rows[k].wind_speed = m.wind_speed
              /\ res.rows[k].water_temp = m.water_temp
              /\ res.rows[k].pressure = m.pressure
        /\ \A j, k \in 1..Len(res.rows) : j < k =>
              Before(res.rows[j].observed_at, res.rows[k].observed_at)
        /\ (stations = {s \in stations : s.id # arg.p_station_id}) =>
              res.rows = <<>>

\* the active stations inside the box asked for, bounds included
InBox ==
    {s \in ActiveStations :
       /\ NumLeq(arg.p_min_lat, s.latitude) /\ NumLeq(s.latitude, arg.p_max_lat)
       /\ NumLeq(arg.p_min_lon, s.longitude) /\ NumLeq(s.longitude, arg.p_max_lon)}

\* C23: get_stations_in_bbox returns exactly the active stations with
\* min_lat <= latitude <= max_lat and min_lon <= longitude <= max_lon, each
\* joined to its latest measurement and ordered by name; when a minimum
\* exceeds its maximum the result is empty.
C23_BBoxInclusive ==
    Applied("get_stations_in_bbox") =>
        /\ Len(res.rows) = Cardinality(InBox)
        /\ \A s \in InBox : \E k \in 1..Len(res.rows) :
              /\ res.rows[k].station_id = s.id
              /\ res.rows[k].station_name = s.name
              /\ res.rows[k].latitude = s.latitude
              /\ res.rows[k].longitude = s.longitude
              /\ IF MeasurementsOf(s.id) = {}
                 THEN /\ res.rows[k].observed_at = Null
                      /\ res.rows[k].water_temp = Null
                      /\ res.rows[k].wave_height = Null
                      /\ res.rows[k].wind_speed = Null
                 ELSE \E m \in MeasurementsOf(s.id) :
                        /\ \A o \in MeasurementsOf(s.id) :
                              ~Before(m.observed_at, o.observed_at)
                        /\ res.rows[k].observed_at = m.observed_at
                        /\ res.rows[k].water_temp = m.water_temp
                        /\ res.rows[k].wave_height = m.wave_height
                        /\ res.rows[k].wind_speed = m.wind_speed
        /\ \A j, k \in 1..Len(res.rows) : j < k =>
              TextLeq(res.rows[j].station_name, res.rows[k].station_name)
        /\ (~NumLeq(arg.p_min_lat, arg.p_max_lat)
              \/ ~NumLeq(arg.p_min_lon, arg.p_max_lon)) => res.rows = <<>>

\* a box with a station on its lower bounds, a station on its upper latitude,
\* and active stations of the store outside it
C23_Witness ==
    /\ Applied("get_stations_in_bbox")
    /\ \E k \in 1..Len(res.rows) :
          /\ res.rows[k].latitude = arg.p_min_lat
          /\ res.rows[k].longitude = arg.p_min_lon
    /\ \E k \in 1..Len(res.rows) : res.rows[k].latitude = arg.p_max_lat
    /\ Cardinality(ActiveStations) > Len(res.rows)
    /\ \E s \in stations : ~s.is_active /\ s.latitude = arg.p_min_lat

\* C24: get_pipeline_status returns one row made of the run record with the
\* greatest start time together with the count of active stations, the count
\* of all measurements, and the minimum and maximum observed_at over all
\* measurements, all of the store as it is at the call.  (Over a store
\* without a run record there is no row, and the client returns null.)
C24_StatusIsLatestRunWithAggregates ==
    Applied("get_pipeline_status") =>
        IF ingestion_log = <<>>
        THEN res.rows = <<>> /\ res.status = Null
        ELSE /\ Len(res.rows) = 1
             /\ res.status = res.rows[1]
             /\ \E k \in 1..Len(ingestion_log) :
                   /\ \A j \in 1..Len(ingestion_log) :
                         ~Before(ingestion_log[k].started_at,
                                 ingestion_log[j].started_at)
                   /\ res.status.last_run = ingestion_log[k].started_at
                   /\ res.status.status = ingestion_log[k].status
                   /\ res.status.stations_count = ingestion_log[k].stations_count
                   /\ res.status.measurements_count =
                         ingestion_log[k].measurements_count
             /\ res.status.total_stations = Cardinality(ActiveStations)
             /\ res.status.total_measurements = Cardinality(measurements)
             /\ IF measurements = {}
                THEN /\ res.status.oldest_measurement = Null
                     /\ res.status.newest_measurement = Null
                ELSE /\ \E m \in measurements :
                           res.status.oldest_measurement = m.observed_at
                     /\ \E m \in measurements :
                           res.status.newest_measurement = m.observed_at
                     /\ \A m \in measurements :
                           /\ ~Before(m.observed_at, res.status.oldest_measurement)
                           /\ ~Before(res.status.newest_measurement, m.observed_at)

\* the call over a store with two run records, an inactive station and
\* several measurements; the record returned is the later one
C24_Witness ==
    /\ Applied("get_pipeline_status")
    /\ Len(ingestion_log) = 2
    /\ Before(ingestion_log[1].started_at, ingestion_log[2].started_at)
    /\ res.status.status = "running"
    /\ stations # ActiveStations
    /\ res.status.total_stations >= 2
    /\ res.status.total_measurements >= 3

\* C25: cleanup_old_measurements(days) deletes exactly the measurements with
\* observed_at earlier than now minus days, returns the number of rows it
\* deleted, and leaves every other measurement, every station and every run
\* record unchanged.
C25_CleanupDeletesExactlyTheOld ==
    [][sweeps' = sweeps + 1 =>
         \E days \in SweepDays :
            /\ measurements' =
                 {m \in measurements :
                    ~Before(m.observed_at, [day |-> now.day - days, min |-> now.min])}
            /\ deleted_count' = Cardinality(measurements) - Cardinality(measurements')
            /\ stations' = stations
            /\ ingestion_log' = ingestion_log]_vars

\* a cleanup that deleted rows and kept others, one of them dated exactly at
\* the threshold and one after it, over a store with stations and run records
C25_Witness ==
    /\ sweeps = 1
    /\ deleted_count >= 2
    /\ \E m \in measurements : m.observed_at = now
    /\ \E m \in measurements : Before(now, m.observed_at)
    /\ stations # {}
    /\ ingestion_log # <<>>

-----------------------------------------------------------------------------
(* Properties of the browser side *)

\* C26: getAvailableSSTSource probes the sources one at a time in the order
\* of SST_DATA_SOURCES and returns the first source whose probe succeeds,
\* without probing any later source; a probe that throws or times out counts
\* as unavailable; when no probe succeeds it returns the JPL MUR source.
C26_FirstAvailableSourceWins ==
    /\ Len(probes) <= Len(SST_DATA_SOURCES)
    /\ \A k \in 1..Len(probes) : probes[k].source = SST_DATA_SOURCES[k]
    /\ \A k \in 1..Len(probes) : probes[k].outcome = "ok" => k = Len(probes)
    /\ (\E k \in 1..Len(probes) : probes[k].outcome = "ok") =>
          sstSource = probes[Len(probes)].source
    /\ (\A k \in 1..Len(probes) : probes[k].outcome # "ok") =>
          sstSource \in {"none", "noaa_jpl_mur"}
    /\ (sstSource = "noaa_jpl_mur" /\ Len(probes) # 2) =>
          Len(probes) = Len(SST_DATA_SOURCES)

\* the third source returned after a probe that threw and one that timed out
C26_Witness ==
    /\ Len(probes) = 3
    /\ probes[1].outcome = "throws"
    /\ probes[2].outcome = "timeout"
    /\ sstSource = "noaa_coralwatch"

-----------------------------------------------------------------------------
(* Further properties of the pipeline *)

\* C27: if both fetches of a run succeed, then at the end of the run every
\* parsed measurement whose station_id exists in the stations table is present
\* in the measurements table, whatever happens to other rows of the feed.
\* (Read for a run no store fault, cleanup or other run interferes with.)
C27_ValidMeasurementsAllWritten ==
    \A r \in Runs :
        (/\ Done(r) /\ response[r] = 200
         /\ audit[r].fetchFailed = {} /\ ~audit[r].fault
         /\ solo[r] /\ sweeps = 0) =>
            \A k \in 1..Len(measurementRows[r]) :
                StationExists(measurementRows[r][k].station_id) =>
                    \E m \in measurements :
                        /\ m.station_id = measurementRows[r][k].station_id
                        /\ m.observed_at = measurementRows[r][k].observed_at

\* C28: every run that writes to stations or measurements has a run record in
\* ingestion_log: if creating the run record at run start fails or returns no
\* id, the run performs no writes to stations or measurements.
C28_NoWritesWithoutRunRecord ==
    \A r \in Runs :
        (pc[r] # "idle" /\ logId[r] = 0) =>
            /\ audit[r].stationsWritten = 0
            /\ audit[r].measWritten = 0

\* C29: in useNDBCTimeseries, for any sequence of stationId changes and any
\* order in which the outstanding requests resolve, once no request is
\* pending the data held is the series of the station selected, and is empty
\* when the selection is null; a response to a request issued for an earlier
\* selection never overwrites it.  (Read for the states without an error: a
\* rejected request leaves the data as it was.)
C29_DataIsSeriesOfSelection ==
    (pending = {} /\ error = NoError /\ issued > 0) =>
        data = IF stationId = NoSelection THEN <<>> ELSE SeriesOf(stationId)

\* C30: in useNDBCStations, a fetch that fails leaves the previously loaded
\* station list unchanged and sets error; the next successful fetch clears
\* error and replaces the list; and loading is false after every completed
\* fetch, successful or not.
C30_ErrorFollowsLastFetch ==
    [][settled'.n # settled.n =>
         /\ loading' = FALSE
         /\ settled'.outcome = "error" =>
               stationList' = stationList /\ error' # NoError
         /\ settled'.outcome = "ok" =>
               stationList' = settled'.payload /\ error' = NoError]_vars

====
